---- MODULE Spec2Model ----
(***************************************************************************)
(* Transport, dispatch and record storage of the investment simulation     *)
(* service: the FastAPI application of app.py (sqlite table `simulations`) *)
(* and the router of routes.py (SQLAlchemy table `simulation_records`).    *)
(*                                                                         *)
(* Every handler is an `async def` without an await in its body, so one    *)
(* handler runs to completion before the next one starts: a handler is one *)
(* atomic action.                                                          *)
(*                                                                         *)
(* Real-valued metrics cannot be evaluated by TLC.  A calculator's return  *)
(* value is therefore carried as the term [model, args]: the calculator    *)
(* that ran and exactly the argument values the code passed to it, with    *)
(* the integer-valued metrics computed.  Whether a calculator returns or   *)
(* raises is computed from the code's arithmetic.                          *)
(***************************************************************************)
EXTENDS Integers, Sequences, FiniteSets, TLC

\* Number of ids uuid4() hands out in a run.
MaxIds == 2
\* Last tick of the database clock (ticks 0..MaxClock).
MaxClock == 1

VARIABLES
    simulations,         \* app.py: table `simulations`, id -> row
    simulation_records,  \* routes.py: table `simulation_records`, id -> row
    uuid_count,          \* how many ids uuid4() has handed out
    clock,               \* the current timestamp tick
    last,                \* the last request and the response it got
    created,             \* id -> what the compute request that stored it returned,
                         \* for the ids neither updated nor deleted since
    np_random,           \* numpy: the state of the global generator behind np.random
    runs                 \* the calls of calculators: arguments, position, outcome

vars == <<simulations, simulation_records, uuid_count, clock, last, created,
          np_random, runs>>

\* What the endpoints work on, and what the calculators work on.
service_vars == <<simulations, simulation_records, uuid_count, clock, last, created>>
calculator_vars == <<np_random, runs>>

(***************************************************************************)
(* Python values.                                                          *)
(***************************************************************************)
\* Optional[...]: None, or a value.
None == [some |-> FALSE]
Some(v) == [some |-> TRUE, value |-> v]

\* The empty request or response body.
Empty == "empty"

\* A call that returns v / a call that raises exception class e.
Return(v) == [ok |-> TRUE, value |-> v]
Raise(e) == [ok |-> FALSE, exc |-> e]

EmptyDict == [k \in {} |-> 0]

Min(a, b) == IF a <= b THEN a ELSE b

\* json.dumps of a dict: the text holds one "key": value member per key.
json_dumps(d) == {<<k, d[k]>> : k \in DOMAIN d}

\* json.loads: the dict of the members of the text.
json_loads(s) == [k \in {m[1] : m \in s} |-> (CHOOSE m \in s : m[1] = k)[2]]

(***************************************************************************)
(* Request models.                                                         *)
(***************************************************************************)
InvestmentType == {"real_estate", "etf_regular", "stock", "mutual_fund", "bond_deposit"}

\* The members of Union[...] of `parameters`, in declaration order.
UnionMembers ==
    <<"RealEstateRequest", "ETFRegularRequest", "StockRequest",
      "MutualFundRequest", "BondDepositRequest">>

\* app.py: the required fields (Field(...)) and the defaulted ones of each model.
AppSchema(shape) ==
    CASE shape = "RealEstateRequest" ->
           [required |-> {"house_price", "down_payment", "loan_rate", "loan_years",
                          "appreciation_rate", "annual_cost", "simulation_years"},
            defaults |-> EmptyDict]
      [] shape = "ETFRegularRequest" ->
           [required |-> {"initial_amount", "monthly_amount", "annual_return", "years"},
            defaults |-> EmptyDict]
      [] shape = "StockRequest" ->
           [required |-> {"monthly_amount", "expected_return", "volatility", "years"},
            defaults |-> [simulations |-> 1000]]
      [] shape = "MutualFundRequest" ->
           [required |-> {"initial_amount", "annual_return", "years"},
            defaults |-> EmptyDict]
      [] shape = "BondDepositRequest" ->
           [required |-> {"principal", "interest_rate", "years"},
            defaults |-> [is_compound |-> TRUE, inflation_rate |-> 2]]

\* The models of app.py by class name.
AppModels == [shape \in {UnionMembers[i] : i \in DOMAIN UnionMembers} |-> AppSchema(shape)]

\* The Union with every field of every member Optional: the first member that
\* shares a field with the body accepts it; absent fields without a default
\* stay absent.
validate_union_Optional(schema, raw) ==
    LET fits == {i \in DOMAIN UnionMembers :
                    schema[UnionMembers[i]].required \cap DOMAIN raw # {}}
    IN IF fits = {}
       THEN Raise("ValidationError")
       ELSE LET i == CHOOSE x \in fits : \A y \in fits : x <= y
                sch == schema[UnionMembers[i]]
                names == (sch.required \cap DOMAIN raw) \cup DOMAIN sch.defaults
            IN Return([shape |-> UnionMembers[i],
                       fields |-> [k \in names |->
                                     IF k \in DOMAIN raw THEN raw[k] ELSE sch.defaults[k]]])

\* Validation of `parameters` against the Union: the first member all of whose
\* required fields are present; fields of no member are dropped, absent
\* defaulted fields are filled in.  (The request bodies enumerated below hold
\* exactly the fields of one model, for which left-to-right and "smart" union
\* resolution agree.)
validate_union(schema, raw) ==
    LET fits == {i \in DOMAIN UnionMembers :
                    schema[UnionMembers[i]].required \subseteq DOMAIN raw}
    IN IF fits = {}
       THEN Raise("ValidationError")
       ELSE LET i == CHOOSE x \in fits : \A y \in fits : x <= y
                sch == schema[UnionMembers[i]]
                names == sch.required \cup DOMAIN sch.defaults
            IN Return([shape |-> UnionMembers[i],
                       fields |-> [k \in names |->
                                     IF k \in DOMAIN raw THEN raw[k] ELSE sch.defaults[k]]])

\* request.parameters.model_dump() / .dict(): the fields as a dict, the class is gone.
model_dump(obj) == obj.fields

(***************************************************************************)
(* app.py: the simulation classes.  Amounts, rates and years are naturals. *)
(***************************************************************************)
RealEstateSimulation_simulate(a) ==
    LET loan_amount == a.house_price - a.down_payment
        years == a.simulation_years
        \* monthly_payment > 0 exactly when loan_amount > 0 (loan_years > 0, rate >= 0)
        total_cost_pos ==
            \/ a.down_payment > 0
            \/ loan_amount > 0 /\ Min(years, a.loan_years) > 0
            \/ a.annual_cost * years > 0
    IN IF a.loan_years = 0
       THEN Raise("ZeroDivisionError")        \* calculate_monthly_payment: / total_payments
       ELSE IF total_cost_pos /\ years = 0
       THEN Raise("ZeroDivisionError")        \* annualized_return: 1/years
       ELSE Return([model |-> "RealEstateSimulation", args |-> a])

ETFRegularInvestment_simulate(a) ==
    LET total_investment == a.initial_amount + (a.monthly_amount * a.years * 12)
    IN IF total_investment > 0 /\ a.years = 0
       THEN Raise("ZeroDivisionError")        \* calculate_irr: 1/self.years
       ELSE Return([model |-> "ETFRegularInvestment", args |-> a,
                    total_investment |-> total_investment])

\* simulations >= 1 in every request enumerated.
StockInvestment_monte_carlo_simulation(a) ==
    LET total_months == a.years * 12
        total_investment == a.monthly_amount * a.years * 12
    IN IF total_months = 0
       THEN Raise("IndexError")               \* path[-1] of an empty path
       ELSE Return([model |-> "StockInvestment", args |-> a,
                    total_investment |-> total_investment])

MutualFundInvestment_simulate(a) ==
    Return([model |-> "MutualFundInvestment", args |-> a,
            initial_amount |-> a.initial_amount])

BondDeposit_simulate(a) ==
    IF a.principal > 0 /\ a.years = 0
    THEN Raise("ZeroDivisionError")           \* nominal_return: 1/self.years
    ELSE Return([model |-> "BondDeposit", args |-> a])

\* params[k] for each k the branch reads: KeyError when one is missing.
HasKeys(params, keys) == keys \subseteq DOMAIN params

\* params.get(k, default)
Get(params, k, default) == IF k \in DOMAIN params THEN params[k] ELSE default

run_simulation(investment_type, params) ==
    CASE investment_type = "real_estate" ->
           IF ~HasKeys(params, {"house_price", "down_payment", "loan_rate", "loan_years",
                                "appreciation_rate", "annual_cost", "simulation_years"})
           THEN Raise("KeyError")
           ELSE RealEstateSimulation_simulate(
                    [house_price |-> params.house_price,
                     down_payment |-> params.down_payment,
                     loan_rate |-> params.loan_rate,
                     loan_years |-> params.loan_years,
                     appreciation_rate |-> params.appreciation_rate,
                     annual_cost |-> params.annual_cost,
                     simulation_years |-> params.simulation_years])
      [] investment_type = "etf_regular" ->
           IF ~HasKeys(params, {"initial_amount", "monthly_amount", "annual_return", "years"})
           THEN Raise("KeyError")
           ELSE ETFRegularInvestment_simulate(
                    [initial_amount |-> params.initial_amount,
                     monthly_amount |-> params.monthly_amount,
                     annual_return |-> params.annual_return,
                     years |-> params.years])
      [] investment_type = "stock" ->
           IF ~HasKeys(params, {"monthly_amount", "expected_return", "volatility", "years"})
           THEN Raise("KeyError")
           ELSE StockInvestment_monte_carlo_simulation(
                    [monthly_amount |-> params.monthly_amount,
                     expected_return |-> params.expected_return,
                     volatility |-> params.volatility,
                     years |-> params.years,
                     simulations |-> Get(params, "simulations", 1000)])
      [] investment_type = "mutual_fund" ->
           IF ~HasKeys(params, {"initial_amount", "annual_return", "years"})
           THEN Raise("KeyError")
           ELSE MutualFundInvestment_simulate(
                    [initial_amount |-> params.initial_amount,
                     annual_return |-> params.annual_return,
                     years |-> params.years])
      [] investment_type = "bond_deposit" ->
           IF ~HasKeys(params, {"principal", "interest_rate", "years"})
           THEN Raise("KeyError")
           ELSE BondDeposit_simulate(
                    [principal |-> params.principal,
                     interest_rate |-> params.interest_rate,
                     years |-> params.years,
                     is_compound |-> Get(params, "is_compound", TRUE),
                     inflation_rate |-> Get(params, "inflation_rate", 2)])
      [] OTHER -> Raise("ValueError")

(***************************************************************************)
(* app.py: the database functions on table `simulations`.  Each takes the  *)
(* table and returns the table after its statement with what it returns.   *)
(***************************************************************************)
\* The record dict built from a row.
RowDict(db, id) ==
    [id |-> id,
     investment_type |-> db[id].investment_type,
     parameters |-> json_loads(db[id].parameters),
     result |-> json_loads(db[id].result),
     created_at |-> db[id].created_at,
     updated_at |-> db[id].updated_at]

\* The INSERT with its last two placeholders bound in the other order: the
\* result goes to column `parameters`, the parameters to column `result`.
save_simulation_to_db_SwappedColumns(db, simulation_id, investment_type, parameters, result, now) ==
    IF simulation_id \in DOMAIN db
    THEN Raise("IntegrityError")
    ELSE Return([i \in DOMAIN db \cup {simulation_id} |->
                   IF i = simulation_id
                   THEN [investment_type |-> investment_type,
                         parameters |-> json_dumps(result),
                         result |-> json_dumps(parameters),
                         created_at |-> now,
                         updated_at |-> now]
                   ELSE db[i]])

\* INSERT INTO simulations (id, investment_type, parameters, result): id is the
\* PRIMARY KEY, created_at and updated_at DEFAULT CURRENT_TIMESTAMP.
save_simulation_to_db(db, simulation_id, investment_type, parameters, result, now) ==
    IF simulation_id \in DOMAIN db
    THEN Raise("IntegrityError")
    ELSE Return([i \in DOMAIN db \cup {simulation_id} |->
                   IF i = simulation_id
                   THEN [investment_type |-> investment_type,
                         parameters |-> json_dumps(parameters),
                         result |-> json_dumps(result),
                         created_at |-> now,
                         updated_at |-> now]
                   ELSE db[i]])

\* The SELECT without its WHERE clause: fetchone() gives whichever row comes
\* first.
get_simulation_from_db_NoWhere(db, simulation_id) ==
    IF DOMAIN db # {}
    THEN Some(RowDict(db, CHOOSE i \in DOMAIN db : \A j \in DOMAIN db : i <= j))
    ELSE None

\* SELECT * FROM simulations WHERE id = ?
get_simulation_from_db(db, simulation_id) ==
    IF simulation_id \in DOMAIN db THEN Some(RowDict(db, simulation_id)) ELSE None

\* ORDER BY created_at DESC: the sequences of all rows in which no row comes
\* before a row with a greater created_at.  SQL leaves the order of rows with
\* equal created_at open.
OrderByCreatedAtDesc(db, ids) ==
    {s \in [1..Cardinality(ids) -> ids] :
        /\ \A i, j \in DOMAIN s : i # j => s[i] # s[j]
        /\ \A i, j \in DOMAIN s : i < j => db[s[i]].created_at >= db[s[j]].created_at}

\* SELECT * FROM simulations ORDER BY created_at DESC: the possible results.
get_all_simulations_from_db(db) ==
    {[n \in DOMAIN s |-> RowDict(db, s[n])] : s \in OrderByCreatedAtDesc(db, DOMAIN db)}

\* The UPDATE without its WHERE clause: every row is set.
update_simulation_in_db_NoWhere(db, simulation_id, parameters, result, now) ==
    [db |-> [i \in DOMAIN db |->
               [db[i] EXCEPT !.parameters = json_dumps(parameters),
                             !.result = json_dumps(result),
                             !.updated_at = now]],
     value |-> DOMAIN db # {}]

\* UPDATE simulations SET parameters = ?, result = ?, updated_at =
\* CURRENT_TIMESTAMP WHERE id = ?; returns cursor.rowcount > 0.
update_simulation_in_db(db, simulation_id, parameters, result, now) ==
    [db |-> [i \in DOMAIN db |->
               IF i = simulation_id
               THEN [db[i] EXCEPT !.parameters = json_dumps(parameters),
                                  !.result = json_dumps(result),
                                  !.updated_at = now]
               ELSE db[i]],
     value |-> simulation_id \in DOMAIN db]

\* The DELETE without conn.commit(): the connection closes, the row stays.
delete_simulation_from_db_NoCommit(db, simulation_id) ==
    [db |-> db, value |-> simulation_id \in DOMAIN db]

\* DELETE FROM simulations WHERE id = ?; returns cursor.rowcount > 0.
delete_simulation_from_db(db, simulation_id) ==
    [db |-> [i \in DOMAIN db \ {simulation_id} |-> db[i]],
     value |-> simulation_id \in DOMAIN db]

\* str(uuid.uuid4()): an id never handed out before; n ids were handed out.
uuid4(n) == n

(***************************************************************************)
(* The requests clients send.                                              *)
(***************************************************************************)
\* Ids a client may name: every id that can be handed out.
Ids == 0..(MaxIds - 1)

\* `parameters` of request bodies: the fields of one model each, and one that
\* lacks required fields of every model.
EtfBody == [initial_amount |-> 1, monthly_amount |-> 1, annual_return |-> 1, years |-> 1]
FundBody == [initial_amount |-> 1, annual_return |-> 1, years |-> 1]
BondBody == [principal |-> 1, interest_rate |-> 1, years |-> 1]
BondNoYearsBody == [principal |-> 1, interest_rate |-> 1, years |-> 0]
PartBody == [initial_amount |-> 1]

AppRawParams == {EtfBody, FundBody, BondBody, BondNoYearsBody, PartBody}

\* The bodies sent to POST /simulate.
Body(investment_type, parameters, save_to_db) ==
    [investment_type |-> investment_type, parameters |-> parameters,
     save_to_db |-> save_to_db]

AppRequests ==
    {Body("mutual_fund", FundBody, TRUE), Body("mutual_fund", FundBody, FALSE),
     Body("mutual_fund", EtfBody, TRUE),
     Body("bond_deposit", BondBody, TRUE),
     Body("bond_deposit", BondNoYearsBody, TRUE),
     Body("bond_deposit", EtfBody, TRUE),
     Body("etf_regular", PartBody, TRUE),
     Body("invalid_type", FundBody, TRUE)}

\* No id / no investment type in a request.
NoId == 0 - 1
NoType == ""

\* The response a handler ends in, with the endpoint and the id, investment
\* type and save_to_db the request named, and the parameters of a compute
\* request or the query of a history request.  A raised HTTPException(status_code, detail) is the response of
\* that status; the detail of a caught exception names it.
Response(op, id, investment_type, save_to_db, parameters, status, body) ==
    [op |-> op, id |-> id, investment_type |-> investment_type,
     save_to_db |-> save_to_db, parameters |-> parameters,
     status |-> status, body |-> body]

Detail(text) == [detail |-> text]

\* `created` without id.
Forget(c, id) == [i \in DOMAIN c \ {id} |-> c[i]]

(***************************************************************************)
(* app.py: the endpoints.                                                  *)
(***************************************************************************)
\* POST /simulate
simulate_investment ==
    /\ UNCHANGED calculator_vars
    /\ \E request \in AppRequests :
      LET investment_type == request.investment_type
          save_to_db == request.save_to_db
          parsed == validate_union(AppModels, request.parameters)
      IN IF investment_type \notin InvestmentType \/ ~parsed.ok
         THEN \* the body is no SimulationRequest: the handler does not run
              /\ last' = Response("simulate", NoId, investment_type, save_to_db, request.parameters, 422,
                                  Detail("ValidationError"))
              /\ UNCHANGED <<simulations, simulation_records, uuid_count, clock, created>>
         ELSE LET params == model_dump(parsed.value)
                  result == run_simulation(investment_type, params)
              IN IF ~result.ok
                 THEN /\ last' = Response("simulate", NoId, investment_type, save_to_db, request.parameters, 500,
                                          Detail(result.exc))
                      /\ UNCHANGED <<simulations, simulation_records, uuid_count, clock,
                                     created>>
                 ELSE /\ uuid_count < MaxIds
                      /\ LET simulation_id == uuid4(uuid_count)
                             saved == IF save_to_db
                                      THEN save_simulation_to_db(simulations, simulation_id,
                                               investment_type, params, result.value, clock)
                                      ELSE Return(simulations)
                         IN IF ~saved.ok
                            THEN /\ last' = Response("simulate", NoId, investment_type, save_to_db, request.parameters, 500,
                                                     Detail(saved.exc))
                                 /\ uuid_count' = uuid_count + 1
                                 /\ UNCHANGED <<simulations, simulation_records, clock,
                                                created>>
                            ELSE /\ simulations' = saved.value
                                 /\ uuid_count' = uuid_count + 1
                                 /\ last' = Response("simulate", NoId, investment_type, save_to_db, request.parameters, 200,
                                        [id |-> simulation_id,
                                         investment_type |-> investment_type,
                                         parameters |-> params,
                                         result |-> result.value,
                                         saved_to_db |-> save_to_db])
                                 /\ created' =
                                        IF save_to_db
                                        THEN [i \in DOMAIN created \cup {simulation_id} |->
                                                IF i = simulation_id
                                                THEN [investment_type |-> investment_type,
                                                      parameters |-> params,
                                                      result |-> result.value]
                                                ELSE created[i]]
                                        ELSE created
                                 /\ UNCHANGED <<simulation_records, clock>>

\* GET /simulations
get_all_simulations ==
    /\ UNCHANGED calculator_vars
    /\ \E rows \in get_all_simulations_from_db(simulations) :
      /\ last' = Response("get_all", NoId, NoType, FALSE, Empty, 200, rows)
      /\ UNCHANGED <<simulations, simulation_records, uuid_count, clock, created>>

\* GET /simulations/{simulation_id}
get_simulation ==
    /\ UNCHANGED calculator_vars
    /\ \E simulation_id \in Ids :
      LET simulation == get_simulation_from_db(simulations, simulation_id)
      IN /\ last' = IF ~simulation.some
                    THEN Response("get", simulation_id, NoType, FALSE, Empty, 404,
                                  Detail("Simulation not found"))
                    ELSE Response("get", simulation_id, NoType, FALSE, Empty, 200, simulation.value)
         /\ UNCHANGED <<simulations, simulation_records, uuid_count, clock, created>>

\* update_simulation with the UPDATE moved before the re-run: the new
\* parameters are written first, the result after the model returned.
update_simulation_try_WriteFirst(db, simulation_id, new_params, now) ==
    LET existing_simulation == get_simulation_from_db(db, simulation_id)
    IN IF ~existing_simulation.some
       THEN [status |-> 404, body |-> Detail("Simulation not found"), db |-> db]
       ELSE LET investment_type == existing_simulation.value.investment_type
                written == update_simulation_in_db(db, simulation_id, new_params,
                               existing_simulation.value.result, now)
                new_result == run_simulation(investment_type, new_params)
            IN IF ~new_result.ok
               THEN [status |-> 500, body |-> Detail(new_result.exc), db |-> written.db]
               ELSE [status |-> 200,
                     body |-> [id |-> simulation_id,
                               investment_type |-> investment_type,
                               parameters |-> new_params,
                               result |-> new_result.value],
                     db |-> update_simulation_in_db(db, simulation_id, new_params,
                                new_result.value, now).db]

\* The try block of update_simulation: the response and the table it leaves.
update_simulation_try(db, simulation_id, new_params, now) ==
    LET existing_simulation == get_simulation_from_db(db, simulation_id)
    IN IF ~existing_simulation.some
       THEN [status |-> 404, body |-> Detail("Simulation not found"), db |-> db]
       ELSE LET investment_type == existing_simulation.value.investment_type
                new_result == run_simulation(investment_type, new_params)
            IN IF ~new_result.ok
               THEN \* except Exception: "Update error: ..."
                    [status |-> 500, body |-> Detail(new_result.exc), db |-> db]
               ELSE LET done == update_simulation_in_db(db, simulation_id, new_params,
                                    new_result.value, now)
                    IN IF ~done.value
                       THEN [status |-> 500, body |-> Detail("Failed to update simulation"),
                             db |-> done.db]
                       ELSE [status |-> 200,
                             body |-> [id |-> simulation_id,
                                       investment_type |-> investment_type,
                                       parameters |-> new_params,
                                       result |-> new_result.value],
                             db |-> done.db]

\* PUT /simulations/{simulation_id}
update_simulation ==
    /\ UNCHANGED calculator_vars
    /\ \E simulation_id \in Ids, raw \in AppRawParams :
      LET parsed == validate_union(AppModels, raw)
      IN IF ~parsed.ok
         THEN \* the body is no UpdateSimulationRequest: the handler does not run
              /\ last' = Response("update", simulation_id, NoType, FALSE, Empty, 422,
                                  Detail("ValidationError"))
              /\ UNCHANGED <<simulations, simulation_records, uuid_count, clock, created>>
         ELSE LET out == update_simulation_try(simulations, simulation_id,
                                               model_dump(parsed.value), clock)
              IN /\ simulations' = out.db
                 /\ last' = Response("update", simulation_id, NoType, FALSE, Empty, out.status, out.body)
                 /\ created' = IF out.status = 200
                               THEN Forget(created, simulation_id)
                               ELSE created
                 /\ UNCHANGED <<simulation_records, uuid_count, clock>>

\* DELETE /simulations/{simulation_id}
delete_simulation ==
    /\ UNCHANGED calculator_vars
    /\ \E simulation_id \in Ids :
      LET done == delete_simulation_from_db(simulations, simulation_id)
      IN /\ simulations' = done.db
         /\ last' = IF ~done.value
                    THEN Response("delete", simulation_id, NoType, FALSE, Empty, 404,
                                  Detail("Simulation not found"))
                    ELSE Response("delete", simulation_id, NoType, FALSE, Empty, 200,
                                  [id |-> simulation_id, deleted |-> TRUE])
         /\ created' = Forget(created, simulation_id)
         /\ UNCHANGED <<simulation_records, uuid_count, clock>>

(***************************************************************************)
(* modles.py: the request models routes.py imports.                        *)
(***************************************************************************)
RoutesSchema(shape) ==
    CASE shape = "RealEstateRequest" ->
           [required |-> {"house_price", "down_payment", "loan_rate", "loan_years",
                          "appreciation_rate_a", "appreciation_rate_b", "annual_cost",
                          "simulation_years"},
            defaults |-> [scenario |-> "A"]]
      [] shape = "ETFRegularRequest" ->
           [required |-> {"initial_amount", "monthly_amount", "dividend_yield",
                          "price_growth", "years"},
            defaults |-> EmptyDict]
      [] shape = "StockRequest" ->
           [required |-> {"initial_amount", "monthly_amount", "expected_return",
                          "volatility", "years"},
            defaults |-> [simulations |-> 10000]]
      [] shape = "MutualFundRequest" ->
           [required |-> {"initial_amount", "annual_return", "years"},
            defaults |-> EmptyDict]
      [] shape = "BondDepositRequest" ->
           [required |-> {"principal", "interest_rate", "years"},
            defaults |-> [is_compound |-> TRUE, inflation_rate |-> 2]]

RoutesModels ==
    [shape \in {UnionMembers[i] : i \in DOMAIN UnionMembers} |-> RoutesSchema(shape)]

(***************************************************************************)
(* calculators/: whether each calculator returns or raises.                *)
(***************************************************************************)
house_investment_analysis(a) ==
    IF a.loan_years = 0
    THEN Raise("ZeroDivisionError")           \* monthly_payment: / total_months
    ELSE IF a.scenario = "A" /\ a.simulation_years = 0
    THEN Raise("ZeroDivisionError")           \* 1 / simulation_years
    ELSE Return([model |-> "house_investment_analysis", args |-> a,
                 loan_amount |-> a.house_price - a.down_payment])

ETFRegularInvestment(a) ==
    LET total_months == a.years * 12
        total_investment == a.initial_amount + a.monthly_amount * total_months
    IN IF total_investment > 0 /\ a.years = 0
       THEN Raise("ZeroDivisionError")        \* annualized_return: 1/years
       ELSE Return([model |-> "ETFRegularInvestment", args |-> a,
                    total_investment |-> total_investment])

\* simulations >= 1 in every request enumerated.
stock_investment_simulation(a) ==
    LET total_investment == a.initial_amount + (a.monthly_amount * a.years)
    IN IF a.years = 0
       THEN Raise("ZeroDivisionError")        \* mean_return: 1/years
       ELSE Return([model |-> "stock_investment_simulation", args |-> a,
                    total_investment |-> total_investment])

bond_deposit(a) ==
    IF a.principal <= 0 THEN Raise("ValueError")
    ELSE IF a.years <= 0 THEN Raise("ValueError")
    ELSE IF a.interest_rate < 0 THEN Raise("ValueError")
    ELSE Return([model |-> "bond_deposit", args |-> a,
                 nominal_return |-> a.interest_rate])

(***************************************************************************)
(* database/models.py: SimulationRepository on table `simulation_records`. *)
(***************************************************************************)
\* A SimulationRecord loaded from its row (the JSON columns are decoded).
RecordOf(db, id) ==
    [id |-> id,
     investment_type |-> db[id].investment_type,
     parameters |-> json_loads(db[id].parameters),
     result |-> json_loads(db[id].result),
     user_session |-> db[id].user_session,
     created_at |-> db[id].created_at,
     updated_at |-> db[id].updated_at]

\* self.db.add(record); self.db.commit(): id is the primary key; created_at
\* and updated_at default to datetime.utcnow.
SimulationRepository_save_simulation(db, simulation_id, investment_type, parameters, result, user_session, now) ==
    IF simulation_id \in DOMAIN db
    THEN Raise("IntegrityError")
    ELSE Return([i \in DOMAIN db \cup {simulation_id} |->
                   IF i = simulation_id
                   THEN [investment_type |-> investment_type,
                         parameters |-> json_dumps(parameters),
                         result |-> json_dumps(result),
                         user_session |-> user_session,
                         created_at |-> now,
                         updated_at |-> now]
                   ELSE db[i]])

\* query(SimulationRecord).filter(id == simulation_id).first()
SimulationRepository_get_simulation(db, simulation_id) ==
    IF simulation_id \in DOMAIN db THEN Some(RecordOf(db, simulation_id)) ELSE None

\* The first `limit` elements of s.
Take(s, limit) == SubSeq(s, 1, Min(Len(s), limit))

\* filter(user_session == user_session).order_by(created_at.desc()).limit(limit)
\* .all(): the possible results.  `== None` is IS NULL.
SimulationRepository_get_user_history(db, user_session, limit) ==
    LET ids == {i \in DOMAIN db : db[i].user_session = user_session}
    IN {Take([n \in DOMAIN s |-> RecordOf(db, s[n])], limit) :
            s \in OrderByCreatedAtDesc(db, ids)}

(***************************************************************************)
(* routes.py: the endpoints.                                               *)
(***************************************************************************)
StockBody == [initial_amount |-> 1, monthly_amount |-> 1, expected_return |-> 1,
              volatility |-> 1, years |-> 1]
BondNoPrincipalBody == [principal |-> 0, interest_rate |-> 1, years |-> 1]

\* The bodies sent to POST /calculate.
RoutesRequests ==
    {Body("stock", StockBody, TRUE), Body("stock", StockBody, FALSE),
     Body("bond_deposit", BondBody, TRUE),
     Body("bond_deposit", BondNoPrincipalBody, TRUE),
     Body("mutual_fund", FundBody, TRUE),
     Body("stock", BondBody, TRUE),
     Body("stock", PartBody, TRUE),
     Body("invalid_type", FundBody, TRUE)}

\* params.<name> for each name the branch reads: AttributeError when the
\* class of `params` has no such field.
HasAttrs(obj, names) == names \subseteq DOMAIN obj.fields

\* The if/elif chain of calculate_investment.
calculate(investment_type, params) ==
    CASE investment_type = "real_estate" ->
           IF ~HasAttrs(params, {"house_price", "down_payment", "loan_rate", "loan_years",
                                 "appreciation_rate_a", "appreciation_rate_b",
                                 "annual_cost", "simulation_years", "scenario"})
           THEN Raise("AttributeError")
           ELSE house_investment_analysis(
                    [house_price |-> params.fields.house_price,
                     down_payment |-> params.fields.down_payment,
                     loan_rate |-> params.fields.loan_rate,
                     loan_years |-> params.fields.loan_years,
                     appreciation_rate_a |-> params.fields.appreciation_rate_a,
                     appreciation_rate_b |-> params.fields.appreciation_rate_b,
                     annual_cost |-> params.fields.annual_cost,
                     simulation_years |-> params.fields.simulation_years,
                     scenario |-> params.fields.scenario])
      [] investment_type = "etf_regular" ->
           IF ~HasAttrs(params, {"initial_amount", "monthly_amount", "dividend_yield",
                                 "price_growth", "years"})
           THEN Raise("AttributeError")
           ELSE ETFRegularInvestment(
                    [initial_amount |-> params.fields.initial_amount,
                     monthly_amount |-> params.fields.monthly_amount,
                     dividend_yield |-> params.fields.dividend_yield,
                     price_growth |-> params.fields.price_growth,
                     years |-> params.fields.years])
      [] investment_type = "stock" ->
           IF ~HasAttrs(params, {"initial_amount", "monthly_amount", "expected_return",
                                 "volatility", "years", "simulations"})
           THEN Raise("AttributeError")
           ELSE stock_investment_simulation(
                    [initial_amount |-> params.fields.initial_amount,
                     monthly_amount |-> params.fields.monthly_amount,
                     expected_return |-> params.fields.expected_return,
                     volatility |-> params.fields.volatility,
                     years |-> params.fields.years,
                     simulations |-> params.fields.simulations])
      [] investment_type = "bond_deposit" ->
           IF ~HasAttrs(params, {"principal", "interest_rate", "years", "is_compound",
                                 "inflation_rate"})
           THEN Raise("AttributeError")
           ELSE bond_deposit(
                    [principal |-> params.fields.principal,
                     interest_rate |-> params.fields.interest_rate,
                     years |-> params.fields.years,
                     is_compound |-> params.fields.is_compound,
                     inflation_rate |-> params.fields.inflation_rate])
      \* raise HTTPException(status_code=400), inside the try
      [] OTHER -> Raise("HTTPException(400)")

\* POST /calculate.  `except Exception` catches whatever the try block raises,
\* the HTTPException(400) of the else branch too, and answers 500.
calculate_investment ==
    /\ UNCHANGED calculator_vars
    /\ \E request \in RoutesRequests :
      LET investment_type == request.investment_type
          save_to_db == request.save_to_db
          parsed == validate_union(RoutesModels, request.parameters)
      IN IF investment_type \notin InvestmentType \/ ~parsed.ok
         THEN \* the body is no SimulationRequest: the handler does not run
              /\ last' = Response("calculate", NoId, investment_type, save_to_db, request.parameters, 422,
                                  Detail("ValidationError"))
              /\ UNCHANGED <<simulations, simulation_records, uuid_count, clock, created>>
         ELSE LET result == calculate(investment_type, parsed.value)
              IN IF ~result.ok
                 THEN /\ last' = Response("calculate", NoId, investment_type, save_to_db, request.parameters, 500,
                                          Detail(result.exc))
                      /\ UNCHANGED <<simulations, simulation_records, uuid_count, clock,
                                     created>>
                 ELSE /\ uuid_count < MaxIds
                      /\ LET simulation_id == uuid4(uuid_count)
                             parameters == model_dump(parsed.value)
                             saved == IF save_to_db
                                      THEN SimulationRepository_save_simulation(
                                               simulation_records, simulation_id,
                                               investment_type, parameters, result.value,
                                               None, clock)
                                      ELSE Return(simulation_records)
                         IN IF ~saved.ok
                            THEN /\ last' = Response("calculate", NoId, investment_type, save_to_db, request.parameters,
                                                     500, Detail(saved.exc))
                                 /\ uuid_count' = uuid_count + 1
                                 /\ UNCHANGED <<simulations, simulation_records, clock,
                                                created>>
                            ELSE /\ simulation_records' = saved.value
                                 /\ uuid_count' = uuid_count + 1
                                 /\ last' = Response("calculate", NoId, investment_type, save_to_db, request.parameters, 200,
                                        IF save_to_db
                                        THEN LET record == RecordOf(saved.value, simulation_id)
                                             IN [id |-> record.id,
                                                 investment_type |-> record.investment_type,
                                                 parameters |-> record.parameters,
                                                 result |-> record.result,
                                                 created_at |-> record.created_at,
                                                 updated_at |-> record.updated_at]
                                        ELSE [id |-> simulation_id,
                                              investment_type |-> investment_type,
                                              parameters |-> parameters,
                                              result |-> result.value,
                                              created_at |-> clock,
                                              updated_at |-> clock])
                                 /\ created' =
                                        IF save_to_db
                                        THEN [i \in DOMAIN created \cup {simulation_id} |->
                                                IF i = simulation_id
                                                THEN [investment_type |-> investment_type,
                                                      parameters |-> parameters,
                                                      result |-> result.value]
                                                ELSE created[i]]
                                        ELSE created
                                 /\ UNCHANGED <<simulations, clock>>

\* The response model of a record.
RecordBody(record) ==
    [id |-> record.id,
     investment_type |-> record.investment_type,
     parameters |-> record.parameters,
     result |-> record.result,
     created_at |-> record.created_at,
     updated_at |-> record.updated_at]

\* GET /simulation/{simulation_id}
routes_get_simulation ==
    /\ UNCHANGED calculator_vars
    /\ \E simulation_id \in Ids :
      LET record == SimulationRepository_get_simulation(simulation_records, simulation_id)
      IN /\ last' = IF ~record.some
                    THEN Response("get", simulation_id, NoType, FALSE, Empty, 404,
                                  Detail("Simulation not found"))
                    ELSE Response("get", simulation_id, NoType, FALSE, Empty, 200,
                                  RecordBody(record.value))
         /\ UNCHANGED <<simulations, simulation_records, uuid_count, clock, created>>

\* GET /history?user_session=&limit=&investment_type=
get_user_history ==
    /\ UNCHANGED calculator_vars
    /\ \E user_session \in {None, Some("session")}, limit \in {1, 50},
       investment_type \in {NoType, "stock", "bond_deposit"} :
      \E records \in SimulationRepository_get_user_history(simulation_records,
                                                           user_session, limit) :
        LET kept == IF investment_type # NoType
                    THEN SelectSeq(records,
                                   LAMBDA r : r.investment_type = investment_type)
                    ELSE records
        IN /\ last' = Response("history", NoId, investment_type, FALSE,
                               [user_session |-> user_session, limit |-> limit], 200,
                               [n \in DOMAIN kept |-> RecordBody(kept[n])])
           /\ UNCHANGED <<simulations, simulation_records, uuid_count, clock, created>>

(***************************************************************************)
(* numpy: the global generator behind np.random, and the calls of the      *)
(* calculators that draw from it.                                          *)
(***************************************************************************)
\* The seed of a generator nobody has seeded (entropy of the operating
\* system): no seed np.random.seed accepts, which are the naturals.
Entropy == 0 - 1

\* The generator's state: the seed it was last given and the number of
\* variates drawn since.  A variate is named by the state it was drawn in.
RandomState(seed, pos) == [seed |-> seed, pos |-> pos]

\* np.random.seed(seed)
np_random_seed(seed) == RandomState(seed, 0)

\* n calls of np.random.normal in a row: the variates and the state after.
np_random_normal(state, n) ==
    [variates |-> [k \in 1..n |-> RandomState(state.seed, state.pos + k - 1)],
     state |-> RandomState(state.seed, state.pos + n)]

\* The threads that call a calculator.
Threads == {1, 2}

\* A thread that has not called yet.
Idle == [pc |-> "idle"]

\* The calculators that draw variates, and how many a call draws in all:
\* calculators/stock.py one per year of each trial, app.py one per month of
\* each path.
DrawsOf(model, args) ==
    CASE model = "stock_investment_simulation" -> args.simulations * args.years
      [] model = "StockInvestment" -> args.simulations * (args.years * 12)
      [] OTHER -> 0

\* What a call returns once it has drawn `variates`: the calculator's return
\* value, which is a function of the arguments and, unless the volatility is
\* 0, of the variates drawn.
Outcome(model, args, variates) ==
    LET base == CASE model = "stock_investment_simulation" ->
                       stock_investment_simulation(args)
                  [] model = "StockInvestment" ->
                       StockInvestment_monte_carlo_simulation(args)
                  [] model = "bond_deposit" -> bond_deposit(args)
    IN IF ~base.ok
       THEN base
       ELSE Return([value |-> base.value,
                    variates |-> IF DrawsOf(model, args) > 0 /\ args.volatility # 0
                                 THEN variates
                                 ELSE << >>])

\* What the call returns when no other call runs between its first step and
\* its last, the generator being in state `start` at its first step.
Alone(model, args, start) ==
    LET from == IF model = "StockInvestment" THEN np_random_seed(42) ELSE start
    IN Outcome(model, args, np_random_normal(from, DrawsOf(model, args)).variates)

\* The calls the threads make.
StockArgs(volatility) ==
    [initial_amount |-> 1, monthly_amount |-> 1, expected_return |-> 1,
     volatility |-> volatility, years |-> 1, simulations |-> 2]
AppStockArgs ==
    [monthly_amount |-> 1, expected_return |-> 1, volatility |-> 1, years |-> 1,
     simulations |-> 2]
BondArgs ==
    [principal |-> 1, interest_rate |-> 1, years |-> 1, is_compound |-> TRUE,
     inflation_rate |-> 2]

ThreadCalls ==
    {[model |-> "stock_investment_simulation", args |-> StockArgs(1)],
     [model |-> "stock_investment_simulation", args |-> StockArgs(0)],
     [model |-> "StockInvestment", args |-> AppStockArgs],
     [model |-> "bond_deposit", args |-> BondArgs]}

\* A thread calls a calculator.
begin_call ==
    /\ UNCHANGED service_vars
    /\ \E t \in Threads, call \in ThreadCalls :
         /\ runs[t].pc = "idle"
         /\ runs' = [runs EXCEPT ![t] =
                        [pc |-> "running", model |-> call.model, args |-> call.args,
                         start |-> np_random, seeded |-> FALSE, variates |-> << >>,
                         result |-> Empty]]
         /\ UNCHANGED np_random

\* A thread runs its call up to and including its next use of np.random:
\* np.random.seed(42) at the head of monte_carlo_simulation, one
\* np.random.normal in stock_investment_simulation, the np.random.normal of
\* one simulate_path; or, with no use left, to its return.
call_step ==
    /\ UNCHANGED service_vars
    /\ \E t \in Threads :
         /\ runs[t].pc = "running"
         /\ LET run == runs[t]
                left == DrawsOf(run.model, run.args) - Len(run.variates)
                n == IF run.model = "StockInvestment" THEN run.args.years * 12 ELSE 1
            IN IF run.model = "StockInvestment" /\ ~run.seeded
               THEN /\ np_random' = np_random_seed(42)
                    /\ runs' = [runs EXCEPT ![t].seeded = TRUE]
               ELSE IF left > 0
               THEN LET drawn == np_random_normal(np_random, n)
                    IN /\ np_random' = drawn.state
                       /\ runs' = [runs EXCEPT ![t].variates = run.variates \o drawn.variates]
               ELSE /\ runs' = [runs EXCEPT ![t].pc = "done",
                                            ![t].result = Outcome(run.model, run.args,
                                                                  run.variates)]
                    /\ UNCHANGED np_random

(***************************************************************************)
(* The calculators' arithmetic.  A float is modelled by the real number it *)
(* approximates, kept as a fraction in lowest terms, or by one of the      *)
(* values arithmetic yields where it is undefined: nan and inf of          *)
(* numpy.float64, a complex of Python's **.                                *)
(***************************************************************************)
Abs(x) == IF x < 0 THEN 0 - x ELSE x

RECURSIVE gcd(_, _)
gcd(a, b) == IF b = 0 THEN a ELSE gcd(b, a % b)

\* The number n/d (d # 0) in lowest terms with a positive denominator.  `root`
\* is 1 but in the values of Annualized below.
Num(n, d) ==
    LET g == gcd(Abs(n), Abs(d))
        s == IF d < 0 THEN 0 - 1 ELSE 1
    IN [kind |-> "num", n |-> s * (n \div g), d |-> s * (d \div g), root |-> 1]

Whole(n) == Num(n, 1)
NaN == [kind |-> "nan", n |-> 0, d |-> 1, root |-> 1]
Inf == [kind |-> "inf", n |-> 1, d |-> 1, root |-> 1]
NegInf == [kind |-> "inf", n |-> 0 - 1, d |-> 1, root |-> 1]
Complex == [kind |-> "complex", n |-> 0, d |-> 1, root |-> 1]

\* x + y, x - y, x * y and, for y # 0, x / y of numbers.
Add(x, y) ==
    LET g == gcd(x.d, y.d)
    IN Num(x.n * (y.d \div g) + y.n * (x.d \div g), (x.d \div g) * y.d)
Neg(x) == Num(0 - x.n, x.d)
Sub(x, y) == Add(x, Neg(y))
Mul(x, y) ==
    LET a == Num(x.n, y.d)
        b == Num(y.n, x.d)
    IN Num(a.n * b.n, a.d * b.d)
Div(x, y) == Mul(x, Num(y.d, y.n))

Sign(x) == IF x.n > 0 THEN 1 ELSE IF x.n < 0 THEN 0 - 1 ELSE 0
Less(x, y) == Sign(Sub(x, y)) < 0
IsZero(x) == x.kind = "num" /\ x.n = 0

\* x ** k for a natural k.
RECURSIVE Power(_, _)
Power(x, k) == IF k = 0 THEN Whole(1) ELSE Mul(x, Power(x, k - 1))

\* x ** k for an integer k (x # 0 if k < 0).
IntegerPower(x, k) == IF k < 0 THEN Div(Whole(1), Power(x, 0 - k)) ELSE Power(x, k)

\* math.floor(x)
Floor(x) == x.n \div x.d

\* round(x, 0): to the nearest integer, a tie to the even one.
round0(x) ==
    LET f == Floor(x)
        over == x.n - f * x.d                         \* (x - f) * x.d, in [0, x.d)
    IN IF over < x.d - over THEN Whole(f)
       ELSE IF over > x.d - over THEN Whole(f + 1)
       ELSE IF f % 2 = 0 THEN Whole(f) ELSE Whole(f + 1)

\* The value of ((n/d) ** (1/root) - 1) * 100 for a root >= 2 and a base n/d
\* that is positive and not the root-th power of a fraction: an irrational
\* number.
Annualized(base, root) ==
    [kind |-> "annualized", n |-> base.n, d |-> base.d, root |-> root]

\* The largest natural whose root-th power is at most n, sought between lo
\* and hi, for a root >= 2.
RECURSIVE WholeRoot(_, _, _, _)
WholeRoot(n, root, lo, hi) ==
    LET mid == (lo + hi + 1) \div 2
    IN IF lo >= hi THEN lo
       ELSE IF Power(Whole(mid), root).n <= n THEN WholeRoot(n, root, mid, hi)
       ELSE WholeRoot(n, root, lo, mid - 1)

\* The naturals whose root-th power is a 32-bit integer end here; a root is
\* a number of years, at most 4 in every request enumerated.
RootLimit(root) ==
    CASE root = 2 -> 46340
      [] root = 3 -> 1290
      [] root = 4 -> 215
      [] OTHER -> 2

\* base ** (1/root) where it is a fraction, for a number base > 0 and a
\* root >= 2; otherwise 0.
Root(base, root) ==
    LET n == WholeRoot(base.n, root, 0, RootLimit(root))
        d == WholeRoot(base.d, root, 0, RootLimit(root))
    IN IF Power(Num(n, d), root) = base THEN Num(n, d) ELSE Whole(0)

\* (base ** (1/years) - 1) * 100 for a number base >= 0 and years >= 1.
annualized_percent(base, years) ==
    IF years = 1 \/ IsZero(base)
    THEN Mul(Sub(base, Whole(1)), Whole(100))
    ELSE IF ~IsZero(Root(base, years))
    THEN Mul(Sub(Root(base, years), Whole(1)), Whole(100))
    ELSE Annualized(base, years)

\* round(x, 2).  nan and inf round to themselves; the rounding of a value
\* of Annualized is the term of kind "rounded".
round2(x) ==
    LET f == Floor(x)
        hundredths == round0(Num((x.n - f * x.d) * 100, x.d))
    IN CASE x.kind = "num" -> Add(Whole(f), Div(hundredths, Whole(100)))
         [] x.kind = "annualized" -> [x EXCEPT !.kind = "rounded"]
         [] OTHER -> x

(***************************************************************************)
(* calculators/stock.py, with its arithmetic.  z[k] is the standard normal *)
(* variate behind the k-th draw of the call.                               *)
(***************************************************************************)
\* A draw that does not scale the variate by `scale`.
normal_UnitScale(loc, scale, z) == Add(loc, Whole(z))

\* np.random.normal(loc, scale): loc + scale * z
normal(loc, scale, z) == Add(loc, Mul(scale, Whole(z)))

\* portfolio_value of a trial after `year` turns of the inner loop.
RECURSIVE portfolio_value(_, _, _, _)
portfolio_value(a, z, trial, year) ==
    IF year = 0
    THEN Whole(a.initial_amount)
    ELSE LET expected_return_decimal == Num(a.expected_return, 100)
             volatility_decimal == Num(a.volatility, 100)
             random_return == normal(expected_return_decimal, volatility_decimal,
                                     z[(trial - 1) * a.years + year])
         IN Mul(Add(portfolio_value(a, z, trial, year - 1), Whole(a.monthly_amount)),
                Add(Whole(1), random_return))

final_values(a, z) == [trial \in 1..a.simulations |-> portfolio_value(a, z, trial, a.years)]

np_sort(values) == SortSeq(values, Less)

RECURSIVE Sum(_, _)
Sum(values, k) == IF k = 0 THEN Whole(0) ELSE Add(Sum(values, k - 1), values[k])

\* np.mean of a non-empty array
np_mean(values) == Div(Sum(values, Len(values)), Whole(Len(values)))

\* np.percentile(sorted, q) of a non-empty sorted array: linear interpolation
\* between the two elements around position q/100 * (n - 1), counted from 0.
np_percentile(sorted, q) ==
    LET position == Num(q * (Len(sorted) - 1), 100)
        lower == Floor(position)
        upper == IF lower + 1 < Len(sorted) THEN lower + 1 ELSE lower
    IN Add(sorted[lower + 1],
           Mul(Sub(position, Whole(lower)), Sub(sorted[upper + 1], sorted[lower + 1])))

\* value / total_investment of a numpy.float64 value: a division by 0.0
\* warns and yields nan or inf.
np_true_divide(value, total) ==
    IF ~IsZero(total) THEN Div(value, total)
    ELSE IF IsZero(value) THEN NaN
    ELSE IF Sign(value) > 0 THEN Inf ELSE NegInf

\* (pow(ratio, 1/years) - 1) * 100 of a numpy.float64 ratio, years >= 1: the
\* fractional power of a negative base is nan.
np_annualized(ratio, years) ==
    CASE ratio.kind = "nan" -> NaN
      [] ratio.kind = "inf" -> IF years = 1 THEN ratio ELSE Inf
      [] ratio.kind = "num" /\ Sign(ratio) < 0 /\ years > 1 -> NaN
      [] OTHER -> annualized_percent(ratio, years)

\* The mapping stock_investment_simulation returns (lines 57-80), or the
\* exception of 1/years.
stock_investment_simulation_result(a, z) ==
    LET final_values_sorted == np_sort(final_values(a, z))
        mean == np_mean(final_values(a, z))
        percentile_5 == np_percentile(final_values_sorted, 5)
        percentile_95 == np_percentile(final_values_sorted, 95)
        total_investment == Whole(a.initial_amount + (a.monthly_amount * a.years))
        mean_return == np_annualized(np_true_divide(mean, total_investment), a.years)
        worst_case == np_annualized(np_true_divide(percentile_5, total_investment), a.years)
        best_case == np_annualized(np_true_divide(percentile_95, total_investment), a.years)
    IN IF a.years = 0
       THEN Raise("ZeroDivisionError")
       ELSE Return([mean |-> round0(mean),
                    percentile_5 |-> round0(percentile_5),
                    percentile_95 |-> round0(percentile_95),
                    total_investment |-> total_investment,
                    mean_return |-> round2(mean_return),
                    worst_case |-> round2(worst_case),
                    best_case |-> round2(best_case)])

(***************************************************************************)
(* A call of a calculator with its arithmetic: the one call of a process   *)
(* whose generator nobody has seeded.                                      *)
(***************************************************************************)
\* The generator of a process that has just started.
Fresh == RandomState(Entropy, 0)

\* The standard normal variates a draw may yield.
Variates == {0 - 1, 1}

\* The caller's record of a call that has ended.
Returned(model, args, drawn, result) ==
    [pc |-> "returned", model |-> model, args |-> args, drawn |-> drawn,
     result |-> result]

\* StockRequest (modles.py): the arguments of stock_investment_simulation.
StockRequests ==
    [initial_amount : {0, 100}, monthly_amount : {0, 10}, expected_return : {0, 10},
     volatility : {0, 10}, years : {1, 2}, simulations : {1, 2, 3}]

\* stock_investment_simulation(**params)
call_stock_investment_simulation ==
    /\ UNCHANGED service_vars
    /\ runs[1].pc = "idle"
    /\ \E a \in StockRequests :
         \E z \in [1..(a.simulations * a.years) -> Variates] :
           /\ runs' = [runs EXCEPT ![1] =
                          Returned("stock_investment_simulation", a, z,
                                   stock_investment_simulation_result(a, z))]
           /\ np_random' = np_random_normal(Fresh, a.simulations * a.years).state

(***************************************************************************)
(* calculators/real_estate.py, with its arithmetic (Python floats: a       *)
(* division by zero raises, ** of a negative base to a fraction is a       *)
(* complex number).                                                        *)
(***************************************************************************)
\* (base ** (1 / years) - 1) * 100 of a Python float base, years >= 1.
py_annualized(base, years) ==
    IF Sign(base) < 0 /\ years > 1 THEN Complex ELSE annualized_percent(base, years)

\* The test with the letter taken in either case.
in_scenario_A_AnyCase(a) == a.scenario \in {"A", "a"}

\* if scenario == "A": ... else: ...
in_scenario_A(a) == a.scenario = "A"

\* Holding costs counted over simulation_years in either scenario.
holding_years_Simulation(a) == a.simulation_years

\* The years total_holding_cost counts: simulation_years in scenario A
\* (line 61), loan_years otherwise (line 85).
holding_years(a) == IF in_scenario_A(a) THEN a.simulation_years ELSE a.loan_years

\* The local variables of house_investment_analysis at line 96, for
\* loan_years > 0 and simulation_years > 0.
house_locals(a) ==
    LET loan_amount == Whole(a.house_price - a.down_payment)
        monthly_rate == Num(a.loan_rate, 100 * 12)
        total_months == a.loan_years * 12
        growth == Power(Add(Whole(1), monthly_rate), total_months)
        monthly_payment ==
            IF Sign(monthly_rate) > 0
            THEN Div(Mul(loan_amount, Mul(monthly_rate, growth)), Sub(growth, Whole(1)))
            ELSE Div(loan_amount, Whole(total_months))
        months_in_simulation == a.simulation_years * 12
        grown == Power(Add(Whole(1), monthly_rate), months_in_simulation)
        remaining_A ==
            IF Sign(monthly_rate) > 0
            THEN Div(Mul(loan_amount, Sub(growth, grown)), Sub(growth, Whole(1)))
            ELSE Div(Mul(loan_amount, Whole(total_months - months_in_simulation)),
                     Whole(total_months))
        payments_A == Mul(monthly_payment, Whole(months_in_simulation))
        payments_B == Mul(monthly_payment, Whole(total_months))
    IN IF in_scenario_A(a)
       THEN [annual_appreciation_rate |->
                 py_annualized(Add(Whole(1), Num(a.appreciation_rate_a, 100)),
                               a.simulation_years),
             current_value |-> Mul(Whole(a.house_price),
                                   Add(Whole(1), Num(a.appreciation_rate_a, 100))),
             loan_amount |-> loan_amount,
             monthly_payment |-> monthly_payment,
             total_loan_payments |-> payments_A,
             remaining_principal |-> remaining_A,
             principal_paid |-> Sub(loan_amount, remaining_A),
             interest_paid |-> Sub(payments_A, Sub(loan_amount, remaining_A)),
             total_holding_cost |-> Whole(a.annual_cost * holding_years(a)),
             actual_cash_outflow |->
                 Add(Add(Whole(a.down_payment), payments_A),
                     Whole(a.annual_cost * holding_years(a))),
             actual_sale_income |->
                 Sub(Mul(Whole(a.house_price),
                         Add(Whole(1), Num(a.appreciation_rate_a, 100))),
                     remaining_A)]
       ELSE [annual_appreciation_rate |->
                 py_annualized(Add(Whole(1), Num(a.appreciation_rate_b, 100)),
                               a.loan_years),
             current_value |-> Mul(Whole(a.house_price),
                                   Add(Whole(1), Num(a.appreciation_rate_b, 100))),
             loan_amount |-> loan_amount,
             monthly_payment |-> monthly_payment,
             total_loan_payments |-> payments_B,
             remaining_principal |-> Whole(0),
             principal_paid |-> loan_amount,
             interest_paid |-> Sub(payments_B, loan_amount),
             total_holding_cost |-> Whole(a.annual_cost * holding_years(a)),
             actual_cash_outflow |->
                 Add(Add(Whole(a.down_payment), payments_B),
                     Whole(a.annual_cost * holding_years(a))),
             actual_sale_income |-> Mul(Whole(a.house_price),
                                        Add(Whole(1), Num(a.appreciation_rate_b, 100)))]

\* Lines 96-116 with the local variables v: profit, roi and the mapping
\* returned, or the exception raised.
house_investment_analysis_return(a, v) ==
    LET profit == Sub(v.actual_sale_income, v.actual_cash_outflow)
        roi == IF Sign(v.actual_cash_outflow) > 0
               THEN Mul(Div(profit, v.actual_cash_outflow), Whole(100))
               ELSE Whole(0)
    IN IF a.loan_years = 0 \/ (in_scenario_A(a) /\ a.simulation_years = 0)
       THEN Raise("ZeroDivisionError")
       ELSE IF v.annual_appreciation_rate.kind = "complex"
       THEN Raise("TypeError")
       ELSE Return([actual_cash_outflow |-> round0(v.actual_cash_outflow),
                    actual_sale_income |-> round0(v.actual_sale_income),
                    current_value |-> round0(v.current_value),
                    profit |-> round0(profit),
                    roi |-> round2(roi),
                    annual_return |-> round2(v.annual_appreciation_rate),
                    monthly_payment |-> round0(v.monthly_payment),
                    loan_years |-> Whole(a.loan_years),
                    interest_paid |-> round0(v.interest_paid),
                    total_loan_payments |-> round0(v.total_loan_payments),
                    remaining_principal |-> round0(v.remaining_principal),
                    holding_cost |-> round0(v.total_holding_cost)])

\* The mapping house_investment_analysis returns, or the exception it
\* raises: ZeroDivisionError of / total_months, of / ((1 + monthly_rate) **
\* total_months - 1) and of 1 / simulation_years, TypeError of round() of a
\* complex annual_appreciation_rate.
house_investment_analysis_result(a) ==
    house_investment_analysis_return(a, house_locals(a))

\* RealEstateRequest (modles.py): scenario is any str.  A loan_rate of 1200
\* is a monthly rate of 1, whose powers are whole numbers.
RealEstateRequests ==
    [house_price : {100}, down_payment : {0, 20, 100}, loan_rate : {0},
     loan_years : {1, 2}, appreciation_rate_a : {30, 0 - 100, 0 - 150},
     appreciation_rate_b : {50, 0 - 150}, annual_cost : {0, 5},
     simulation_years : {1, 2, 3}, scenario : {"A", "B"}]
    \cup
    [house_price : {1}, down_payment : {0, 1}, loan_rate : {1200},
     loan_years : {1}, appreciation_rate_a : {100, 0 - 100, 0 - 200},
     appreciation_rate_b : {100, 0 - 200}, annual_cost : {0, 1},
     simulation_years : {1, 2}, scenario : {"A", "B"}]
    \cup
    [house_price : {100}, down_payment : {20, 100}, loan_rate : {0},
     loan_years : {1, 2}, appreciation_rate_a : {30, 0 - 150},
     appreciation_rate_b : {50, 0 - 150}, annual_cost : {0, 5},
     simulation_years : {1, 3}, scenario : {"a", ""}]

\* house_investment_analysis(**params)
call_house_investment_analysis ==
    /\ UNCHANGED service_vars
    /\ runs[1].pc = "idle"
    /\ \E a \in RealEstateRequests :
         runs' = [runs EXCEPT ![1] =
                     Returned("house_investment_analysis", a, << >>,
                              house_investment_analysis_result(a))]
    /\ UNCHANGED np_random

(***************************************************************************)
(* calculators/etf_regular.py, with its arithmetic (Python floats).        *)
(***************************************************************************)
\* An initial purchase at a price of 1 while current_price starts at 100.
etf_start_BaselineOne(a) ==
    [current_shares |-> IF a.initial_amount > 0 THEN Whole(a.initial_amount) ELSE Whole(0),
     current_price |-> Whole(100),
     total_dividend_income |-> Whole(0),
     raised |-> FALSE]

\* The variables of the monthly loop before its first turn (lines 40-47).
etf_start(a) ==
    [current_shares |-> IF a.initial_amount > 0
                        THEN Div(Whole(a.initial_amount), Whole(100))
                        ELSE Whole(0),
     current_price |-> Whole(100),
     total_dividend_income |-> Whole(0),
     raised |-> FALSE]

\* A month in which the price does not grow.
etf_price_growth_None(s, a) == s

\* current_price *= (1 + monthly_growth_rate)
etf_price_growth(s, a) ==
    [s EXCEPT !.current_price = Mul(s.current_price,
                                    Add(Whole(1), Num(a.price_growth, 100 * 12)))]

\* The month's dividend, added to the income and, when positive, reinvested
\* at current_price (lines 55-61).
etf_dividend(s, a) ==
    LET monthly_dividend == Mul(Mul(s.current_shares, s.current_price),
                                Num(a.dividend_yield, 100 * 12))
    IN IF Sign(monthly_dividend) > 0
       THEN [s EXCEPT !.total_dividend_income = Add(s.total_dividend_income, monthly_dividend),
                      !.current_shares = Add(s.current_shares,
                                             Div(monthly_dividend, s.current_price))]
       ELSE [s EXCEPT !.total_dividend_income = Add(s.total_dividend_income, monthly_dividend)]

\* The month's contribution bought at current_price (lines 64-66); a
\* current_price of 0.0 raises ZeroDivisionError.
etf_contribution(s, a) ==
    IF a.monthly_amount > 0
    THEN IF IsZero(s.current_price)
         THEN [s EXCEPT !.raised = TRUE]
         ELSE [s EXCEPT !.current_shares = Add(s.current_shares,
                                               Div(Whole(a.monthly_amount), s.current_price))]
    ELSE s

\* A turn that buys the month's contribution first, before the price grows
\* and the dividend is paid.
etf_month_ContributionFirst(s, a) ==
    IF s.raised THEN s
    ELSE etf_dividend(etf_price_growth(etf_contribution(s, a), a), a)

\* One turn of the loop (lines 50-66).
etf_month(s, a) ==
    IF s.raised THEN s
    ELSE etf_contribution(etf_dividend(etf_price_growth(s, a), a), a)

\* The variables of the loop after `month` turns.
RECURSIVE etf_loop(_, _)
etf_loop(a, month) ==
    IF month = 0 THEN etf_start(a) ELSE etf_month(etf_loop(a, month - 1), a)

\* final_value = current_shares * current_price (line 69), of a call whose
\* loop does not raise.
etf_final_value(a) ==
    LET end == etf_loop(a, a.years * 12)
    IN Mul(end.current_shares, end.current_price)

\* The value newton found as the monthly rate, turned into a yearly
\* percentage (line 109).
IRR == [kind |-> "irr", n |-> 0, d |-> 1, root |-> 1]

\* What scipy.optimize.newton(npv, total_annual_return/12) and line 109 may
\* do: find a root, give up after its iterations (RuntimeError), or fail in
\* npv's or line 109's arithmetic.
NewtonOutcomes ==
    {Return(IRR), Raise("RuntimeError"), Raise("OverflowError"),
     Raise("ZeroDivisionError")}

\* The try statement with `except RuntimeError:` in place of `except:`.
etf_irr_RuntimeErrorOnly(newton, annualized_return) ==
    IF newton.ok THEN Return(newton.value)
    ELSE IF newton.exc = "RuntimeError" THEN Return(annualized_return)
    ELSE newton

\* try: ... except: irr = annualized_return (lines 106-112)
etf_irr(newton, annualized_return) ==
    IF newton.ok THEN Return(newton.value) ELSE Return(annualized_return)

\* The mapping ETFRegularInvestment returns, or the exception it raises.
ETFRegularInvestment_result(a, newton) ==
    LET total_months == a.years * 12
        end == etf_loop(a, total_months)
        final_value == Mul(end.current_shares, end.current_price)
        total_investment == Whole(a.initial_amount + a.monthly_amount * total_months)
        profit == Sub(final_value, total_investment)
        capital_gain == Sub(Sub(final_value, total_investment), end.total_dividend_income)
        annualized_return ==
            IF Sign(total_investment) > 0
            THEN py_annualized(Div(final_value, total_investment), a.years)
            ELSE Whole(0)
        irr == etf_irr(newton, annualized_return)
        roi == IF Sign(total_investment) > 0
               THEN Mul(Div(profit, total_investment), Whole(100))
               ELSE Whole(0)
    IN IF end.raised \/ (Sign(total_investment) > 0 /\ a.years = 0)
       THEN Raise("ZeroDivisionError")
       ELSE IF ~irr.ok
       THEN irr
       ELSE IF irr.value.kind = "complex" \/ annualized_return.kind = "complex"
       THEN Raise("TypeError")
       ELSE Return([final_value |-> round2(final_value),
                    total_investment |-> round2(total_investment),
                    profit |-> round2(profit),
                    roi |-> round2(roi),
                    irr |-> round2(irr.value),
                    annualized_return |-> round2(annualized_return),
                    dividend_income |-> round2(end.total_dividend_income),
                    capital_gain |-> round2(capital_gain)])

\* ETFRegularRequest (modles.py).  A yearly rate of 1200 is a monthly rate
\* of 1, whose powers are whole numbers; a price_growth of -1200 brings the
\* price to 0 in the first month.
ETFRegularRequests ==
    [initial_amount : {0, 100}, monthly_amount : {0, 10}, dividend_yield : {0, 1200},
     price_growth : {0, 1200, 0 - 1200}, years : {1}]
    \cup
    [initial_amount : {0, 100}, monthly_amount : {0, 10}, dividend_yield : {0},
     price_growth : {0}, years : {2}]

\* ETFRegularInvestment(**params)
call_ETFRegularInvestment ==
    /\ UNCHANGED service_vars
    /\ runs[1].pc = "idle"
    /\ \E a \in ETFRegularRequests, newton \in NewtonOutcomes :
         runs' = [runs EXCEPT ![1] =
                     Returned("ETFRegularInvestment", a, newton,
                              ETFRegularInvestment_result(a, newton))]
    /\ UNCHANGED np_random

(***************************************************************************)
(* calculators/bond_deposit.py, with its arithmetic, and the two bond      *)
(* models called.                                                          *)
(***************************************************************************)
\* A final value that leaves the 1 out of 1 + interest_rate_decimal.
bond_final_value_NoUnit(a) ==
    IF a.is_compound
    THEN Mul(Whole(a.principal), IntegerPower(Num(a.interest_rate, 100), a.years))
    ELSE Mul(Whole(a.principal), Mul(Num(a.interest_rate, 100), Whole(a.years)))

\* final_value (lines 34-39), and calculate_return of app.py's BondDeposit.
bond_final_value(a) ==
    IF a.is_compound
    THEN Mul(Whole(a.principal), IntegerPower(Add(Whole(1), Num(a.interest_rate, 100)), a.years))
    ELSE Mul(Whole(a.principal),
             Add(Whole(1), Mul(Num(a.interest_rate, 100), Whole(a.years))))

\* A real value deflated by the default inflation_rate of 2.0.
bond_real_value_DefaultInflation(a) ==
    Div(bond_final_value(a), IntegerPower(Add(Whole(1), Num(2, 100)), a.years))

\* real_value (line 42), and calculate_real_return of app.py's BondDeposit.
bond_real_value(a) ==
    Div(bond_final_value(a), IntegerPower(Add(Whole(1), Num(a.inflation_rate, 100)), a.years))

\* The mapping bond_deposit returns, or the ValueError of its validation.
\* inflation_rate > -100 in every request enumerated.
bond_deposit_result(a) ==
    LET interest_rate_decimal == Num(a.interest_rate, 100)
        inflation_rate_decimal == Num(a.inflation_rate, 100)
        final_value == bond_final_value(a)
        real_value == bond_real_value(a)
        nominal_return == Whole(a.interest_rate)
        real_return == Mul(Sub(Div(Add(Whole(1), interest_rate_decimal),
                                   Add(Whole(1), inflation_rate_decimal)),
                               Whole(1)),
                           Whole(100))
        inflation_impact == Sub(final_value, real_value)
    IN IF ~bond_deposit(a).ok
       THEN bond_deposit(a)
       ELSE Return([final_value |-> round2(final_value),
                    real_value |-> round2(real_value),
                    nominal_return |-> round2(nominal_return),
                    real_return |-> round2(real_return),
                    inflation_impact |-> round2(inflation_impact)])

\* ((value / principal) ** (1 / years) - 1) * 100 of app.py's BondDeposit,
\* for value / principal > 0 and years # 0.
BondDeposit_annualized(value, principal, years) ==
    IF years > 0
    THEN py_annualized(Div(value, principal), years)
    ELSE py_annualized(Div(principal, value), 0 - years)

\* The mapping BondDeposit.simulate of app.py returns (lines 390-403), or the
\* ZeroDivisionError of 1 / self.years.  interest_rate and inflation_rate
\* are above -100 in every request enumerated.
BondDeposit_simulate_result(a) ==
    LET final_value == bond_final_value(a)
        real_value == bond_real_value(a)
    IN IF ~BondDeposit_simulate(a).ok
       THEN BondDeposit_simulate(a)
       ELSE Return([final_value |-> final_value,
                    real_value |-> real_value,
                    nominal_return |->
                        IF a.principal > 0
                        THEN BondDeposit_annualized(final_value, Whole(a.principal), a.years)
                        ELSE Whole(0),
                    real_return |->
                        IF a.principal > 0
                        THEN BondDeposit_annualized(real_value, Whole(a.principal), a.years)
                        ELSE Whole(0),
                    inflation_impact |-> Sub(final_value, real_value)])

\* BondDepositRequest (modles.py) and the parameters of app.py's
\* bond_deposit branch: neither constrains a field's range.
BondDepositRequests ==
    [principal : {0 - 100, 0, 100}, interest_rate : {0 - 1, 0, 3}, years : {0 - 1, 0, 1, 2},
     is_compound : BOOLEAN, inflation_rate : {0, 2}]

\* bond_deposit(**params)
call_bond_deposit ==
    /\ UNCHANGED service_vars
    /\ runs[1].pc = "idle"
    /\ \E a \in BondDepositRequests :
         runs' = [runs EXCEPT ![1] =
                     Returned("bond_deposit", a, << >>, bond_deposit_result(a))]
    /\ UNCHANGED np_random

\* BondDeposit(...).simulate() of app.py
call_BondDeposit_simulate ==
    /\ UNCHANGED service_vars
    /\ runs[1].pc = "idle"
    /\ \E a \in BondDepositRequests :
         runs' = [runs EXCEPT ![1] =
                     Returned("BondDeposit", a, << >>, BondDeposit_simulate_result(a))]
    /\ UNCHANGED np_random

(***************************************************************************)
(* database/models.py: save_or_update_simulation, statement by statement.  *)
(* Each caller has a Session of its own; a commit makes its write visible  *)
(* to the other.                                                           *)
(***************************************************************************)
\* The calls of save_or_update_simulation a caller makes.
RepositoryCalls ==
    [simulation_id : Ids, investment_type : {"bond"},
     parameters : {BondBody, FundBody},
     result : {[final_value |-> 1], [final_value |-> 2]},
     user_session : {None, Some("session")}]

\* existing_record.parameters = ...; .result = ...; .updated_at = utcnow();
\* .user_session = ... if one is given; self.db.commit(): an UPDATE of the
\* row with the record's id, which leaves its investment_type and created_at.
save_or_update_InPlace(db, call, now) ==
    [i \in DOMAIN db |->
        IF i = call.simulation_id
        THEN [db[i] EXCEPT !.parameters = json_dumps(call.parameters),
                           !.result = json_dumps(call.result),
                           !.updated_at = now,
                           !.user_session = IF call.user_session.some
                                            THEN call.user_session
                                            ELSE db[i].user_session]
        ELSE db[i]]

\* existing_record = self.get_simulation(simulation_id)
save_or_update_lookup ==
    /\ \E t \in Threads, call \in RepositoryCalls :
         /\ runs[t].pc = "idle"
         /\ runs' = [runs EXCEPT ![t] =
                       [pc |-> "looked up", call |-> call,
                        existing_record |->
                            SimulationRepository_get_simulation(
                                simulation_records, call.simulation_id).some]]
    /\ UNCHANGED <<service_vars, np_random>>

\* if existing_record: ... commit; return existing_record
\* else: return self.save_simulation(...); except: rollback; raise e
save_or_update_write ==
    /\ \E t \in Threads :
         /\ runs[t].pc = "looked up"
         /\ LET call == runs[t].call
                saved == IF runs[t].existing_record
                         THEN Return(save_or_update_InPlace(simulation_records, call,
                                                            clock))
                         ELSE SimulationRepository_save_simulation(
                                  simulation_records, call.simulation_id,
                                  call.investment_type, call.parameters,
                                  call.result, call.user_session, clock)
            IN /\ simulation_records' = IF saved.ok THEN saved.value
                                                   ELSE simulation_records
               /\ runs' = [runs EXCEPT ![t] =
                             [pc |-> "finished", call |-> call,
                              existing_record |-> runs[t].existing_record,
                              outcome |-> IF saved.ok
                                          THEN Return(RecordOf(saved.value,
                                                               call.simulation_id))
                                          ELSE Raise(saved.exc)]]
    /\ UNCHANGED <<simulations, uuid_count, clock, last, created, np_random>>

(***************************************************************************)
(* app.py: update_simulation, statement by statement, in server process 1; *)
(* the other endpoints run in other processes on the same                  *)
(* database file.  A step is one statement on the database: a connection   *)
(* is opened, used and committed within it.                                *)
(***************************************************************************)
\* existing_simulation = get_simulation_from_db(simulation_id); 404 if none
update_simulation_check ==
    /\ \E t \in {1}, simulation_id \in Ids, raw \in AppRawParams :
         LET parsed == validate_union(AppModels, raw)
             existing_simulation == get_simulation_from_db(simulations, simulation_id)
         IN /\ runs[t].pc = "idle"
            /\ parsed.ok
            /\ runs' = [runs EXCEPT ![t] =
                          IF ~existing_simulation.some
                          THEN [pc |-> "finished", simulation_id |-> simulation_id,
                                new_params |-> model_dump(parsed.value),
                                investment_type |-> NoType,
                                status |-> 404,
                                body |-> Detail("Simulation not found"),
                                stored |-> FALSE]
                          ELSE [pc |-> "checked", simulation_id |-> simulation_id,
                                new_params |-> model_dump(parsed.value),
                                investment_type |->
                                    existing_simulation.value.investment_type]]
    /\ UNCHANGED <<service_vars, np_random>>

\* new_result = run_simulation(...); success = update_simulation_in_db(...);
\* 500 if not success; the response
update_simulation_write ==
    /\ \E t \in {1} :
         /\ runs[t].pc = "checked"
         /\ LET simulation_id == runs[t].simulation_id
                new_params == runs[t].new_params
                new_result == run_simulation(runs[t].investment_type, new_params)
                done == IF new_result.ok
                        THEN update_simulation_in_db(simulations, simulation_id,
                                                     new_params, new_result.value, clock)
                        ELSE [db |-> simulations, value |-> FALSE]
                status == IF new_result.ok /\ done.value THEN 200 ELSE 500
            IN /\ simulations' = done.db
               /\ runs' = [runs EXCEPT ![t] =
                             [pc |-> "finished", simulation_id |-> simulation_id,
                              new_params |-> new_params,
                              investment_type |-> runs[t].investment_type,
                              status |-> status,
                              body |-> IF ~new_result.ok THEN Detail(new_result.exc)
                                       ELSE IF ~done.value
                                       THEN Detail("Failed to update simulation")
                                       ELSE [id |-> simulation_id,
                                             investment_type |->
                                                 runs[t].investment_type,
                                             parameters |-> new_params,
                                             result |-> new_result.value],
                              stored |-> simulation_id \in DOMAIN done.db]]
               /\ created' = IF status = 200 THEN Forget(created, simulation_id)
                                               ELSE created
    /\ UNCHANGED <<simulation_records, uuid_count, clock, last, np_random>>

\* A tick of the clock behind CURRENT_TIMESTAMP and datetime.utcnow().
Tick ==
    /\ UNCHANGED calculator_vars
    /\ clock < MaxClock
    \* a tick no row carries is not observable: the clock moves on once a row
    \* has been written in the current tick
    /\ \/ \E i \in DOMAIN simulations : simulations[i].updated_at = clock
       \/ \E i \in DOMAIN simulation_records : simulation_records[i].updated_at = clock
    /\ clock' = clock + 1
    /\ last' = Response("tick", NoId, NoType, FALSE, Empty, 0, Empty)
    /\ UNCHANGED <<simulations, simulation_records, uuid_count, created>>

Init ==
    /\ simulations = EmptyDict
    /\ simulation_records = EmptyDict
    /\ uuid_count = 0
    /\ clock = 0
    /\ last = Response("start", NoId, NoType, FALSE, Empty, 0, Empty)
    /\ created = EmptyDict
    /\ np_random = RandomState(Entropy, 0)
    /\ runs = [t \in Threads |-> Idle]

Next ==
    \/ simulate_investment
    \/ get_all_simulations
    \/ get_simulation
    \/ update_simulation
    \/ delete_simulation
    \/ Tick

\* The application of app.py.
Spec == Init /\ [][Next]_vars

NextRoutes ==
    \/ calculate_investment
    \/ routes_get_simulation
    \/ get_user_history
    \/ Tick

\* The router of routes.py.
SpecRoutes == Init /\ [][NextRoutes]_vars

\* Variates drawn elsewhere in the process between two seedings.
MaxOtherDraws == 1

\* The seeds a caller gives the generator.
Seeds == {7, 42}

\* A caller hands its call a seeded source the only way there is: it calls
\* np.random.seed(seed) before the call.
give_seed ==
    /\ UNCHANGED service_vars
    /\ \E t \in Threads, seed \in Seeds :
         /\ runs[t].pc = "idle"
         /\ np_random' = np_random_seed(seed)
         /\ runs' = [runs EXCEPT ![t] = [pc |-> "seeded", seed |-> seed]]

\* Someone else in the process calls np.random.normal.
draw_elsewhere ==
    /\ UNCHANGED service_vars
    /\ np_random.pos < MaxOtherDraws
    /\ np_random' = np_random_normal(np_random, 1).state
    /\ UNCHANGED runs

\* The generator after a whole call that started with it in state `start`.
GeneratorAfter(model, args, start) ==
    LET from == IF model = "StockInvestment" THEN np_random_seed(42) ELSE start
    IN IF DrawsOf(model, args) > 0 \/ model = "StockInvestment"
       THEN np_random_normal(from, DrawsOf(model, args)).state
       ELSE start

\* The caller that seeded runs its whole call, nothing else running in
\* between its first step and its last.
call_alone ==
    /\ UNCHANGED service_vars
    /\ \E t \in Threads, call \in ThreadCalls :
         /\ runs[t].pc = "seeded"
         /\ runs' = [runs EXCEPT ![t] =
                        [pc |-> "done", seed |-> runs[t].seed,
                         model |-> call.model, args |-> call.args, start |-> np_random,
                         result |-> Alone(call.model, call.args, np_random)]]
         /\ np_random' = GeneratorAfter(call.model, call.args, np_random)

NextSeeded ==
    \/ give_seed
    \/ draw_elsewhere
    \/ call_alone

\* Calls one after the other in a process that seeds and uses np.random.
SpecSeeded == Init /\ [][NextSeeded]_vars

NextThreads ==
    \/ begin_call
    \/ call_step

\* Two threads, each calling one calculator.
SpecThreads == Init /\ [][NextThreads]_vars

NextCalculators ==
    \/ call_stock_investment_simulation
    \/ call_house_investment_analysis
    \/ call_ETFRegularInvestment
    \/ call_bond_deposit
    \/ call_BondDeposit_simulate

\* A process that calls one calculator.
SpecCalculators == Init /\ [][NextCalculators]_vars

NextRepository ==
    \/ save_or_update_lookup
    \/ save_or_update_write
    \/ Tick

\* Two callers of save_or_update_simulation, each with its own Session.
SpecRepository == Init /\ [][NextRepository]_vars

NextProcesses ==
    \/ simulate_investment
    \/ delete_simulation
    \/ update_simulation_check
    \/ update_simulation_write

\* Server processes of app.py on one database file: an update in flight while
\* records are created and deleted.
SpecProcesses == Init /\ [][NextProcesses]_vars

(***************************************************************************)
(* The claims.  `last` is the request that was served last and its         *)
(* response; in an action formula last' is the request the step serves.    *)
(***************************************************************************)
\* The investment types the if/elif chain of calculate_investment has a branch for.
CalculateTypes == {"real_estate", "etf_regular", "stock", "bond_deposit"}

\* The parameter model that belongs to each investment type.
RequestOf(investment_type) ==
    CASE investment_type = "real_estate" -> "RealEstateRequest"
      [] investment_type = "etf_regular" -> "ETFRegularRequest"
      [] investment_type = "stock" -> "StockRequest"
      [] investment_type = "mutual_fund" -> "MutualFundRequest"
      [] investment_type = "bond_deposit" -> "BondDepositRequest"

\* The field names of a parameter model.
FieldsOf(schema) == schema.required \cup DOMAIN schema.defaults

\* The rows of both tables: the store a request works on.
Stored == DOMAIN simulations \cup DOMAIN simulation_records

\* C1: a compute request on /calculate whose investment_type has no branch in
\* the dispatcher is answered with a validation-class status (400 or 422),
\* never with the generic 500 of a failed computation.
C1_UnsupportedTypeIsValidationError ==
    (last.op = "calculate" /\ last.investment_type \notin CalculateTypes)
        => last.status \in {400, 422}

\* C2: whenever a model has run for a compute or an update request, the
\* parameters it ran on have exactly the fields of the parameter model of the
\* investment type it ran for.
C2_ShapeBelongsToType ==
    (last.op \in {"simulate", "update"} /\ last.status = 200)
        => DOMAIN last.body.parameters
              = FieldsOf(AppSchema(RequestOf(last.body.investment_type)))

\* C3: every request ends in 200, 422, 404 or 500, and a 500 is never the
\* answer to a validation failure: neither to a body the request model rejects
\* nor to a domain value a model rejects at entry (ValueError).
C3_OutcomeByCause ==
    last.op \notin {"start", "tick"}
        => /\ last.status \in {200, 422, 404, 500}
           /\ last.status = 500 => last.body.detail \notin {"ValidationError", "ValueError"}

\* C4: a compute or update request that is not answered 200 (it failed
\* validation, named no record, or failed inside a model) leaves both tables
\* as they were.
C4_FailedRequestLeavesStore ==
    [][(last'.op \in {"simulate", "calculate", "update"} /\ last'.status # 200)
          => /\ simulations' = simulations
             /\ simulation_records' = simulation_records]_vars

\* An update of an existing record has failed inside the model and has been
\* answered 500.
C4_Witness ==
    /\ last.op = "update"
    /\ last.status = 500
    /\ last.id \in DOMAIN simulations
    /\ last.body.detail = "ZeroDivisionError"

\* What an accepted compute request does to table db, db2 being the table after.
AcceptedCompute(db, db2) ==
    LET body == last'.body
    IN IF last'.save_to_db
       THEN /\ body.id \notin DOMAIN db
            /\ DOMAIN db2 = DOMAIN db \cup {body.id}
            /\ \A i \in DOMAIN db : db2[i] = db[i]
            /\ db2[body.id].investment_type = last'.investment_type
            /\ json_loads(db2[body.id].parameters) = body.parameters
            /\ json_loads(db2[body.id].result) = body.result
            /\ body.investment_type = last'.investment_type
       ELSE /\ db2 = db
            /\ body.id \notin DOMAIN db2

\* C5: an accepted compute request with save_to_db = true adds exactly one
\* row, under an id that was in no table before, holding the request's
\* investment_type and the parameters and result it was answered with; with
\* save_to_db = false it adds no row and the id it returns is in no table.
C5_AcceptedComputeAddsOneRecord ==
    [][/\ (last'.op = "simulate" /\ last'.status = 200)
            => /\ AcceptedCompute(simulations, simulations')
               /\ simulation_records' = simulation_records
       /\ (last'.op = "calculate" /\ last'.status = 200)
            => /\ AcceptedCompute(simulation_records, simulation_records')
               /\ simulations' = simulations]_vars

\* A second record has been stored by an accepted compute request.
C5_Witness ==
    /\ last.op = "simulate"
    /\ last.status = 200
    /\ last.save_to_db
    /\ last.body.id \in DOMAIN simulations
    /\ Cardinality(DOMAIN simulations) = 2

\* What a step may do to table db, db2 being the table after.
Frame(db, db2) ==
    /\ last'.op \in {"get", "get_all", "history"} => db2 = db
    /\ \A i \in DOMAIN db :
         /\ i \notin DOMAIN db2 => (last'.op = "delete" /\ last'.id = i)
         /\ (i \in DOMAIN db2 /\ db2[i] # db[i]) => (last'.op = "update" /\ last'.id = i)
    /\ \A i \in DOMAIN db2 \ DOMAIN db :
         /\ last'.op \in {"simulate", "calculate"}
         /\ last'.status = 200
         /\ last'.body.id = i

\* C6: a row changes only in an update that names its id and leaves its table
\* only in a delete that names its id; fetch and list change no table; a row
\* appears only as the one an accepted compute request returns the id of.
C6_Frame ==
    [][/\ Frame(simulations, simulations')
       /\ Frame(simulation_records, simulation_records')]_vars

\* One of two stored records has been updated.
C6_Witness ==
    /\ last.op = "update"
    /\ last.status = 200
    /\ Cardinality(DOMAIN simulations) = 2

\* C7: an update whose body passes validation is answered 200 when it names a
\* stored id, the row then holding the new parameters and the result of the
\* stored investment_type's model on them, and 404 only when the id is stored
\* nowhere.
C7_UpdateExistingSucceeds ==
    (last.op = "update" /\ last.status # 422)
        => \/ /\ last.status = 200
              /\ last.id \in DOMAIN simulations
              /\ RowDict(simulations, last.id).investment_type = last.body.investment_type
              /\ RowDict(simulations, last.id).parameters = last.body.parameters
              /\ Return(RowDict(simulations, last.id).result)
                    = run_simulation(last.body.investment_type, last.body.parameters)
           \/ /\ last.status = 404
              /\ last.id \notin DOMAIN simulations

\* C8: a delete of a stored id is answered 200 and removes the row; a delete
\* of an id that is not stored is answered 404 and changes nothing; a fetch
\* of an id that was handed out and is not stored is answered 404; and an id
\* that was handed out and is not stored is never stored again.
C8_DeletedStaysDeleted ==
    [][/\ last'.op = "delete"
            => IF last'.id \in DOMAIN simulations
               THEN last'.status = 200 /\ last'.id \notin DOMAIN simulations'
               ELSE last'.status = 404 /\ simulations' = simulations
       /\ (last'.op = "get" /\ last'.id < uuid_count /\ last'.id \notin Stored)
            => last'.status = 404
       /\ \A i \in Ids : (i < uuid_count /\ i \notin Stored) => i \notin Stored'
       /\ \A i \in Stored' : i < uuid_count']_vars

\* A stored record has been deleted.
C8_Witness ==
    /\ last.op = "delete"
    /\ last.status = 200
    /\ last.id < uuid_count
    /\ last.id \notin DOMAIN simulations

\* C9: a fetch of an id an accepted compute request stored, not updated or
\* deleted since, is answered 200 with that id and the investment_type,
\* parameters and result the compute request was answered with; a fetch of an
\* id that is stored nowhere, so of every id never created, is answered 404.
C9_FetchReturnsCreated ==
    last.op = "get"
        => /\ last.id \in DOMAIN created
                => /\ last.status = 200
                   /\ last.body.id = last.id
                   /\ last.body.investment_type = created[last.id].investment_type
                   /\ last.body.parameters = created[last.id].parameters
                   /\ last.body.result = created[last.id].result
           /\ last.id \notin Stored => last.status = 404

\* The second record stored has been fetched.
C9_Witness ==
    /\ last.op = "get"
    /\ last.status = 200
    /\ last.id \in DOMAIN created
    /\ last.id = 1

\* C10: GET /simulations lists the records newest first: of any two records
\* the one stored by the later compute request (the greater id handed out)
\* comes first, also when both were stored in the same tick.
C10_NewestFirst ==
    last.op = "get_all"
        => \A m, n \in DOMAIN last.body : m < n => last.body[m].id > last.body[n].id

\* A body's parameters hold the required fields of no member of the Union.
MatchesNoShape(schema, raw) ==
    \A i \in DOMAIN UnionMembers : ~(schema[UnionMembers[i]].required \subseteq DOMAIN raw)

\* C11: a POST /simulate whose investment_type is none of the five values, or
\* whose parameters lack required fields of every parameter model, is
\* answered 422, and the step hands out no id and stores no record.
C11_InvalidRequestRejected ==
    [][(/\ last'.op = "simulate"
        /\ \/ last'.investment_type \notin InvestmentType
           \/ MatchesNoShape(AppModels, last'.parameters))
          => /\ last'.status = 422
             /\ simulations' = simulations
             /\ uuid_count' = uuid_count]_vars

\* A request with missing parameters has been rejected while a record is stored.
C11_Witness ==
    /\ last.op = "simulate"
    /\ last.investment_type \in InvestmentType
    /\ MatchesNoShape(AppModels, last.parameters)
    /\ last.status = 422
    /\ DOMAIN simulations # {}

\* C12: a call that has returned while other calls ran between its steps
\* has returned what it returns when it runs alone from the generator state
\* it started in.
C12_InterleavedEqualsAlone ==
    \A t \in Threads :
        runs[t].pc = "done"
            => runs[t].result = Alone(runs[t].model, runs[t].args, runs[t].start)

\* C13: two calls of a stock simulator with the same arguments, each handed
\* a source seeded with the same seed, return the same values, whatever else
\* was drawn in the process before or between them.
C13_SameSeedSameResult ==
    \A t, u \in Threads :
        (/\ runs[t].pc = "done" /\ runs[u].pc = "done"
         /\ runs[t].model = runs[u].model
         /\ runs[t].args = runs[u].args
         /\ runs[t].seed = runs[u].seed)
            => runs[t].result = runs[u].result

\* C14: a call of the stochastic equity simulator whose total_investment =
\* initial_amount + monthly_amount * years is <= 0 returns normally and
\* reports mean_return, worst_case and best_case as exactly 0.
C14_ZeroInvestmentReportsZero ==
    \A t \in Threads :
        (/\ runs[t].pc = "returned"
         /\ runs[t].model = "stock_investment_simulation"
         /\ runs[t].args.initial_amount + runs[t].args.monthly_amount * runs[t].args.years <= 0)
        => /\ runs[t].result.ok
           /\ runs[t].result.value.mean_return = Whole(0)
           /\ runs[t].result.value.worst_case = Whole(0)
           /\ runs[t].result.value.best_case = Whole(0)

\* The parameter domains of the data model: amounts, rates other than growth
\* and appreciation, and costs are not negative; prices, principals, years
\* and numbers of trials are positive; down_payment <= house_price.
InDomain(model, a) ==
    CASE model = "house_investment_analysis" ->
           /\ a.house_price > 0 /\ a.down_payment >= 0 /\ a.down_payment <= a.house_price
           /\ a.loan_rate >= 0 /\ a.loan_years > 0 /\ a.annual_cost >= 0
           /\ a.simulation_years > 0 /\ a.scenario \in {"A", "B"}
      [] model = "ETFRegularInvestment" ->
           /\ a.initial_amount >= 0 /\ a.monthly_amount >= 0 /\ a.dividend_yield >= 0
           /\ a.years > 0
      [] model = "stock_investment_simulation" ->
           /\ a.initial_amount >= 0 /\ a.monthly_amount >= 0 /\ a.volatility >= 0
           /\ a.years > 0 /\ a.simulations > 0
      [] model \in {"bond_deposit", "BondDeposit"} ->
           /\ a.principal > 0 /\ a.interest_rate >= 0 /\ a.years > 0
           /\ a.inflation_rate >= 0

\* The calculators of package calculators.
Calculators ==
    {"house_investment_analysis", "ETFRegularInvestment", "stock_investment_simulation",
     "bond_deposit"}

\* Every entry of a result mapping is a defined number.
Defined(mapping) ==
    \A k \in DOMAIN mapping : mapping[k].kind \in {"num", "annualized", "rounded", "irr"}

\* C15: for every parameter set inside the domains of the data model a
\* calculator returns a result mapping whose entries are defined numbers: it
\* raises no exception of a division by zero or of a fractional power of a
\* negative base, and reports no nan or inf.
C15_EveryModelReturnsDefinedNumbers ==
    \A t \in Threads :
        (/\ runs[t].pc = "returned"
         /\ runs[t].model \in Calculators
         /\ InDomain(runs[t].model, runs[t].args))
        => /\ runs[t].result.ok
           /\ Defined(runs[t].result.value)

\* The call runs up to its try statement: the monthly loop has not raised.
ReachesNewton(a) == ~etf_loop(a, a.years * 12).raised

\* C16: whenever the root-finder of the ETF simulator fails, by giving up or
\* by any other exception, the call returns its full result mapping and the
\* irr it reports equals the annualized_return it reports.
C16_IrrFallsBack ==
    \A t \in Threads :
        (/\ runs[t].pc = "returned"
         /\ runs[t].model = "ETFRegularInvestment"
         /\ ReachesNewton(runs[t].args)
         /\ ~runs[t].drawn.ok)
        => /\ runs[t].result.ok
           /\ DOMAIN runs[t].result.value =
                  {"final_value", "total_investment", "profit", "roi", "irr",
                   "annualized_return", "dividend_income", "capital_gain"}
           /\ runs[t].result.value.irr = runs[t].result.value.annualized_return

\* A root-finder that gave up in a call whose annualized return is not 0.
C16_Witness ==
    /\ runs[1].pc = "returned"
    /\ runs[1].model = "ETFRegularInvestment"
    /\ runs[1].drawn = Raise("RuntimeError")
    /\ runs[1].result.ok
    /\ runs[1].result.value.irr = runs[1].result.value.annualized_return
    /\ runs[1].result.value.annualized_return # Whole(0)

\* A month in the fixed order, for a price that stays above 0: the price
\* grows; the dividend is that of the shares held before the month's
\* contribution at the grown price, and buys shares at that price; the
\* contribution buys shares at that same price.
OrderedMonth(s, a) ==
    LET price == Mul(s.current_price, Add(Whole(1), Num(a.price_growth, 1200)))
        dividend == Mul(Mul(s.current_shares, price), Num(a.dividend_yield, 1200))
    IN [current_price |-> price,
        total_dividend_income |-> Add(s.total_dividend_income, dividend),
        current_shares |-> Add(Add(s.current_shares, Div(dividend, price)),
                               Div(Whole(a.monthly_amount), price)),
        raised |-> FALSE]

\* The initial amount bought at the baseline price of 100, then `month`
\* months in the fixed order.
RECURSIVE Ordered(_, _)
Ordered(a, month) ==
    IF month = 0
    THEN [current_price |-> Whole(100), total_dividend_income |-> Whole(0),
          current_shares |-> Num(a.initial_amount, 100), raised |-> FALSE]
    ELSE OrderedMonth(Ordered(a, month - 1), a)

\* C17: in each of the years * 12 months of a call of the ETF simulator the
\* price grows first, the dividend of the shares held before the month's
\* contribution is then taken at the grown price and reinvested at it, and
\* the contribution is bought last at that same price; the initial amount
\* is bought at the baseline price before the first month.  The values the
\* call reports are those of the last month.
C17_MonthOrder ==
    \A t \in Threads :
        (/\ runs[t].pc = "returned"
         /\ runs[t].model = "ETFRegularInvestment"
         /\ runs[t].args.price_growth > 0 - 1200)
        => LET a == runs[t].args
               end == Ordered(a, a.years * 12)
           IN /\ \A month \in 0..(a.years * 12) : etf_loop(a, month) = Ordered(a, month)
              /\ runs[t].result.ok
              /\ runs[t].result.value.final_value =
                     round2(Mul(end.current_shares, end.current_price))
              /\ runs[t].result.value.dividend_income = round2(end.total_dividend_income)

\* A call with an initial amount, contributions, growth and dividends:
\* month by month the value v becomes 4 * v + 10, from 100.
C17_Witness ==
    /\ runs[1].pc = "returned"
    /\ runs[1].model = "ETFRegularInvestment"
    /\ runs[1].args = [initial_amount |-> 100, monthly_amount |-> 10,
                       dividend_yield |-> 1200, price_growth |-> 1200, years |-> 1]
    /\ runs[1].result.ok
    /\ runs[1].result.value.final_value = Whole(1733645650)
    /\ etf_loop(runs[1].args, 1).current_shares = Num(205, 100)

\* C18: a call of the real estate model that returns reports
\* remaining_principal = 0 in scenario B and remaining_principal >= 0 in
\* scenario A, where principal_paid + remaining_principal = loan_amount =
\* house_price - down_payment; for a simulation_years above loan_years and
\* for a loan_rate of 0 as well.
C18_RemainingPrincipal ==
    \A t \in Threads :
        (/\ runs[t].pc = "returned"
         /\ runs[t].model = "house_investment_analysis"
         /\ InDomain(runs[t].model, runs[t].args)
         /\ runs[t].result.ok)
        => LET a == runs[t].args
               v == house_locals(a)
           IN IF a.scenario = "B"
              THEN runs[t].result.value.remaining_principal = Whole(0)
              ELSE /\ Sign(runs[t].result.value.remaining_principal) >= 0
                   /\ Add(v.principal_paid, v.remaining_principal) =
                          Whole(a.house_price - a.down_payment)

\* C19: a call of the bond model with principal <= 0, years <= 0 or
\* interest_rate < 0 raises the validation error and returns no result; a
\* call with principal > 0, years > 0 and interest_rate >= 0 does not raise
\* it.
C19_BondValidation ==
    \A t \in Threads :
        (/\ runs[t].pc = "returned"
         /\ runs[t].model \in {"bond_deposit", "BondDeposit"})
        => LET a == runs[t].args
           IN IF a.principal <= 0 \/ a.years <= 0 \/ a.interest_rate < 0
              THEN runs[t].result = Raise("ValueError")
              ELSE runs[t].result # Raise("ValueError")

\* value := (value + monthly_amount) * (1 + expected_return/100), applied
\* `years` times from initial_amount.
RECURSIVE Compounded(_, _)
Compounded(a, years) ==
    IF years = 0
    THEN Whole(a.initial_amount)
    ELSE Mul(Add(Compounded(a, years - 1), Whole(a.monthly_amount)),
             Add(Whole(1), Num(a.expected_return, 100)))

\* C20: in a call of the stochastic equity simulator with volatility = 0
\* every trial's final value is the deterministic recurrence applied `years`
\* times, whatever the variates drawn, and the mean, percentile_5 and
\* percentile_95 reported are that one value.
C20_ZeroVolatilityIsDeterministic ==
    \A t \in Threads :
        (/\ runs[t].pc = "returned"
         /\ runs[t].model = "stock_investment_simulation"
         /\ runs[t].args.volatility = 0)
        => LET a == runs[t].args
               values == final_values(a, runs[t].drawn)
           IN /\ \A trial \in 1..a.simulations : values[trial] = Compounded(a, a.years)
              /\ np_mean(values) = np_percentile(np_sort(values), 5)
              /\ np_mean(values) = np_percentile(np_sort(values), 95)
              /\ runs[t].result.ok
              /\ runs[t].result.value.mean = round0(Compounded(a, a.years))
              /\ runs[t].result.value.percentile_5 = runs[t].result.value.mean
              /\ runs[t].result.value.percentile_95 = runs[t].result.value.mean

\* Three trials of two years whose variates differ: (100 + 10) * 1.1 = 121,
\* (121 + 10) * 1.1 = 144.1 in each.
C20_Witness ==
    /\ runs[1].pc = "returned"
    /\ runs[1].model = "stock_investment_simulation"
    /\ runs[1].args = [initial_amount |-> 100, monthly_amount |-> 10, expected_return |-> 10,
                       volatility |-> 0, years |-> 2, simulations |-> 3]
    /\ runs[1].drawn = <<1, 0 - 1, 0 - 1, 1, 1, 1>>
    /\ final_values(runs[1].args, runs[1].drawn) = [trial \in 1..3 |-> Num(1441, 10)]
    /\ runs[1].result.value.mean = Whole(144)
    /\ runs[1].result.value.percentile_5 = Whole(144)
    /\ runs[1].result.value.percentile_95 = Whole(144)

\* C21: a call of the ETF simulator with dividend_yield = 0, price_growth = 0
\* and monthly_amount = 0 reports final_value = initial_amount and
\* dividend_income = profit = capital_gain = 0, for every initial_amount >= 0
\* and years > 0.
C21_NoGrowthKeepsInitialAmount ==
    \A t \in Threads :
        (/\ runs[t].pc = "returned"
         /\ runs[t].model = "ETFRegularInvestment"
         /\ InDomain(runs[t].model, runs[t].args)
         /\ runs[t].args.dividend_yield = 0
         /\ runs[t].args.price_growth = 0
         /\ runs[t].args.monthly_amount = 0)
        => /\ runs[t].result.ok
           /\ runs[t].result.value.final_value = Whole(runs[t].args.initial_amount)
           /\ runs[t].result.value.dividend_income = Whole(0)
           /\ runs[t].result.value.profit = Whole(0)
           /\ runs[t].result.value.capital_gain = Whole(0)

\* 100 held for two years without growth, dividend or contribution.
C21_Witness ==
    /\ runs[1].pc = "returned"
    /\ runs[1].model = "ETFRegularInvestment"
    /\ runs[1].args = [initial_amount |-> 100, monthly_amount |-> 0, dividend_yield |-> 0,
                       price_growth |-> 0, years |-> 2]
    /\ runs[1].result.ok
    /\ runs[1].result.value.final_value = Whole(100)
    /\ runs[1].result.value.profit = Whole(0)

\* The requests that differ from `a` in price_growth only, with a larger one.
LargerGrowth(a) ==
    {b \in ETFRegularRequests :
        /\ b.price_growth > a.price_growth
        /\ [b EXCEPT !.price_growth = a.price_growth] = a}

\* C22 as stated: of two calls of the ETF simulator inside the domains that
\* differ in price_growth only, the one with the larger price_growth returns
\* the strictly larger final_value; also with initial_amount = 0 and
\* monthly_amount = 0.
C22_StrictlyMonotonicInGrowth ==
    \A t \in Threads :
        (/\ runs[t].pc = "returned"
         /\ runs[t].model = "ETFRegularInvestment"
         /\ InDomain(runs[t].model, runs[t].args))
        => \A b \in LargerGrowth(runs[t].args) :
              LET larger == ETFRegularInvestment_result(b, runs[t].drawn)
              IN /\ runs[t].result.ok
                 /\ larger.ok
                 /\ Less(runs[t].result.value.final_value, larger.value.final_value)

\* C22 as amended: of two such calls whose price_growth is above -1200, so
\* that the price stays above 0, the one with the larger price_growth has
\* the strictly larger final value before rounding, and reports a
\* final_value that is not smaller, if initial_amount > 0 or monthly_amount
\* > 0; both report final_value = 0 if both amounts are 0.
C22_MonotonicInGrowthOfAnInvestment ==
    \A t \in Threads :
        (/\ runs[t].pc = "returned"
         /\ runs[t].model = "ETFRegularInvestment"
         /\ InDomain(runs[t].model, runs[t].args)
         /\ runs[t].args.price_growth > 0 - 1200)
        => \A b \in LargerGrowth(runs[t].args) :
              LET a == runs[t].args
                  larger == ETFRegularInvestment_result(b, runs[t].drawn)
              IN /\ runs[t].result.ok
                 /\ larger.ok
                 /\ IF a.initial_amount > 0 \/ a.monthly_amount > 0
                    THEN /\ Less(etf_final_value(a), etf_final_value(b))
                         /\ ~Less(larger.value.final_value, runs[t].result.value.final_value)
                    ELSE /\ runs[t].result.value.final_value = Whole(0)
                         /\ larger.value.final_value = Whole(0)

\* Twelve contributions of 10 without growth are worth 120; with a price
\* that doubles every month they are worth 10 * (2^12 - 1).
C22_Witness ==
    /\ runs[1].pc = "returned"
    /\ runs[1].model = "ETFRegularInvestment"
    /\ runs[1].args = [initial_amount |-> 0, monthly_amount |-> 10, dividend_yield |-> 0,
                       price_growth |-> 0, years |-> 1]
    /\ runs[1].result.ok
    /\ runs[1].result.value.final_value = Whole(120)
    /\ etf_final_value([runs[1].args EXCEPT !.price_growth = 1200]) = Whole(40950)

\* BondDepositParameters inside their domains.
ValidBond(t) ==
    /\ runs[t].pc = "returned"
    /\ runs[t].model \in {"bond_deposit", "BondDeposit"}
    /\ InDomain(runs[t].model, runs[t].args)

\* C23: with inflation_rate = 0 a bond computation inside the domains,
\* compound or simple, reports real_value = final_value and
\* inflation_impact = 0.
C23_NoInflationNoImpact ==
    \A t \in Threads :
        (ValidBond(t) /\ runs[t].model = "bond_deposit" /\ runs[t].args.inflation_rate = 0)
        => /\ runs[t].result.ok
           /\ runs[t].result.value.real_value = runs[t].result.value.final_value
           /\ runs[t].result.value.inflation_impact = Whole(0)

\* 100 at 3 % simple interest for 2 years without inflation: 106 twice.
C23_Witness ==
    /\ runs[1].pc = "returned"
    /\ runs[1].model = "bond_deposit"
    /\ runs[1].args = [principal |-> 100, interest_rate |-> 3, years |-> 2,
                       is_compound |-> FALSE, inflation_rate |-> 0]
    /\ runs[1].result.ok
    /\ runs[1].result.value.final_value = Whole(106)
    /\ runs[1].result.value.real_value = Whole(106)

\* C24: with is_compound = True and interest_rate = 0 a bond computation
\* inside the domains reports final_value = principal, for every years > 0.
C24_NoInterestKeepsPrincipal ==
    \A t \in Threads :
        (/\ ValidBond(t) /\ runs[t].model = "bond_deposit"
         /\ runs[t].args.is_compound /\ runs[t].args.interest_rate = 0)
        => /\ runs[t].result.ok
           /\ runs[t].result.value.final_value = Whole(runs[t].args.principal)

\* 100 compounded at 0 % for 2 years with 2 % inflation.
C24_Witness ==
    /\ runs[1].pc = "returned"
    /\ runs[1].model = "bond_deposit"
    /\ runs[1].args = [principal |-> 100, interest_rate |-> 0, years |-> 2,
                       is_compound |-> TRUE, inflation_rate |-> 2]
    /\ runs[1].result.ok
    /\ runs[1].result.value.final_value = Whole(100)
    /\ runs[1].result.value.real_value = Num(9612, 100)

\* (1 + interest_rate/100) / (1 + inflation_rate/100) - 1, as a percentage.
Fisher(a) ==
    Mul(Sub(Div(Add(Whole(1), Num(a.interest_rate, 100)),
                Add(Whole(1), Num(a.inflation_rate, 100))),
            Whole(1)),
        Whole(100))

\* C25: every bond computation inside the domains, compound or simple, of
\* calculators/bond_deposit.py and of app.py alike, reports a nominal_return
\* equal to the interest_rate given and a real_return equal, to 2 decimals,
\* to the Fisher relation of interest_rate and inflation_rate.
C25_NominalAndFisherReturn ==
    \A t \in Threads :
        ValidBond(t)
        => /\ runs[t].result.ok
           /\ runs[t].result.value.nominal_return = Whole(runs[t].args.interest_rate)
           /\ round2(runs[t].result.value.real_return) = round2(Fisher(runs[t].args))

\* The requests that differ from `a` in simulation_years or
\* appreciation_rate_a at most.
SameButEarlySale(a) ==
    {b \in RealEstateRequests :
        [b EXCEPT !.simulation_years = a.simulation_years,
                  !.appreciation_rate_a = a.appreciation_rate_a] = a}

\* C26: in scenario B of the real estate model the totals span the loan
\* term: total_loan_payments = monthly_payment * loan_years * 12,
\* holding cost = annual_cost * loan_years, interest_paid =
\* total_loan_payments - loan_amount, actual_sale_income = current_value;
\* the call reports these values rounded, and a scenario B call that
\* differs in simulation_years or appreciation_rate_a only returns the same
\* result.
C26_ScenarioBSpansLoanTerm ==
    \A t \in Threads :
        (/\ runs[t].pc = "returned"
         /\ runs[t].model = "house_investment_analysis"
         /\ InDomain(runs[t].model, runs[t].args)
         /\ runs[t].args.scenario = "B")
        => LET a == runs[t].args
               v == house_locals(a)
           IN /\ v.total_loan_payments = Mul(v.monthly_payment, Whole(a.loan_years * 12))
              /\ v.total_holding_cost = Whole(a.annual_cost * a.loan_years)
              /\ v.interest_paid = Sub(v.total_loan_payments,
                                       Whole(a.house_price - a.down_payment))
              /\ v.actual_sale_income = v.current_value
              /\ runs[t].result.ok =>
                     /\ runs[t].result.value.total_loan_payments = round0(v.total_loan_payments)
                     /\ runs[t].result.value.holding_cost = round0(v.total_holding_cost)
                     /\ runs[t].result.value.interest_paid = round0(v.interest_paid)
                     /\ runs[t].result.value.actual_sale_income = round0(v.current_value)
              /\ \A b \in SameButEarlySale(a) :
                     house_investment_analysis_result(b) = runs[t].result

\* A loan of 80 over 2 years without interest, held to its end at a cost
\* of 5 a year, whatever the 3 years of the early sale.
C26_Witness ==
    /\ runs[1].pc = "returned"
    /\ runs[1].model = "house_investment_analysis"
    /\ runs[1].args = [house_price |-> 100, down_payment |-> 20, loan_rate |-> 0,
                       loan_years |-> 2, appreciation_rate_a |-> 30,
                       appreciation_rate_b |-> 50, annual_cost |-> 5,
                       simulation_years |-> 3, scenario |-> "B"]
    /\ runs[1].result.ok
    /\ runs[1].result.value.total_loan_payments = Whole(80)
    /\ runs[1].result.value.holding_cost = Whole(10)
    /\ runs[1].result.value.actual_sale_income = Whole(150)

\* C27: a call of save_or_update_simulation that has finished has not failed
\* with a duplicate-id error, whatever another caller did between its lookup
\* and its write, and one record with its id is stored.
C27_SaveOrUpdateNeverFailsOnDuplicateId ==
    \A t \in Threads :
        runs[t].pc = "finished"
            => /\ runs[t].outcome.ok
               /\ runs[t].call.simulation_id \in DOMAIN simulation_records

\* C28: an update-by-id whose re-run succeeded and that has ended, whatever
\* deletes ran between its existence check and its write, ended with 200 and
\* the updated record stored or with 404 and no record of that id stored by
\* it: no other outcome, and no row that its write brought back.
C28_UpdateAgainstDelete ==
    \A t \in Threads :
        (/\ runs[t].pc = "finished"
         /\ runs[t].status # 404 =>
                run_simulation(runs[t].investment_type, runs[t].new_params).ok)
            => \/ runs[t].status = 200 /\ runs[t].stored
               \/ runs[t].status = 404 /\ ~runs[t].stored

\* The stored records of the session and the type a history request names.
Matching(query, investment_type) ==
    {i \in DOMAIN simulation_records :
        /\ simulation_records[i].user_session = query.user_session
        /\ simulation_records[i].investment_type = investment_type}

\* C29: the answer to GET /history with an investment_type filter and limit L
\* holds min(L, number of stored records of that type for the session)
\* records, all of that type and session, none older than a record of that
\* type left out.
C29_HistoryFilterWithinLimit ==
    (last.op = "history" /\ last.investment_type # NoType)
        => LET matching == Matching(last.parameters, last.investment_type)
               returned == {last.body[n].id : n \in DOMAIN last.body}
           IN /\ Cardinality(DOMAIN last.body)
                    = Min(last.parameters.limit, Cardinality(matching))
              /\ returned \subseteq matching
              /\ \A i \in returned, j \in matching \ returned :
                    simulation_records[i].created_at
                        >= simulation_records[j].created_at

====
